---- MODULE Spec2Model ----
(***************************************************************************)
(* Model of the Ballot contract (Ballot.sol): whitelisting, voting,        *)
(* delegation with weight propagation, admin roles, open/closed flag and   *)
(* winner selection; and of the BallotFactory contract                     *)
(* (BallotFactory.sol), which deploys ballots and records them.  One       *)
(* action per external function; a reverted call leaves the storage of     *)
(* every contract as it was and emits nothing (EVM revert).                *)
(* Proposal ids are 0-based as in the contract.  uint256 arithmetic never  *)
(* approaches 2^256 here: every counter is bounded by totalVoters.         *)
(***************************************************************************)
EXTENDS Integers, Sequences, FiniteSets, TLC

\* ---- bounds of the model ------------------------------------------------
NumAccounts == 3      \* externally owned accounts 1..NumAccounts
NumProposals == 2     \* largest proposal list given to the constructor
MaxCapacity == 3      \* largest _maxVotes given to the constructor
MaxBatch == 2         \* longest list given to whitelistVoters
MaxTally == 2         \* largest voteCount of a tally drawn for winningProposal
MaxBallots == 2       \* most ballots created through the factory

\* ---- program constants --------------------------------------------------
MaxProposals == 5     \* constructor: _proposalNames.length <= 5

Zero == 0             \* address(0), the unset value of Voter.delegate
Accounts == 1 .. NumAccounts
Addr == {Zero} \cup Accounts
Owner == 1            \* the _owner given to the constructor

\* proposals .. maxVotes are the storage of the Ballot contract at address
\* self; deployed holds the storage of the other Ballot contracts, by
\* address; ballots and userBallots are the storage of the BallotFactory.
VARIABLES proposals, voters, owner, admins, totalVoters, votesCount,
          votingOpen, allowDelegation, maxVotes, last, events,
          ballots, userBallots, deployed, self

vars == <<proposals, voters, owner, admins, totalVoters, votesCount,
          votingOpen, allowDelegation, maxVotes, last, events,
          ballots, userBallots, deployed, self>>

storage == <<proposals, voters, owner, admins, totalVoters, votesCount,
             votingOpen, allowDelegation, maxVotes>>

registry == <<ballots, userBallots>>

\* the address of the k-th Ballot contract created; 0 is the one deployed
\* directly, 1, 2, ... are those deployed by the factory
BallotAddress(k) == NumAccounts + 1 + k

\* no Ballot contract
NoBallot == Zero

\* struct Voter, zero-valued as a fresh mapping slot
Voter == [hasVoted |-> FALSE, isWhitelisted |-> FALSE, votedProposalId |-> 0,
          delegate |-> Zero, weight |-> 0]

\* struct Proposal as pushed by the constructor
Proposal(i) == [name |-> i, voteCount |-> 0]

ProposalsLength == Cardinality(DOMAIN proposals)

\* A call that reverts: storage is untouched and no event is logged.
Reverted(op, reason) ==
    /\ last' = [op |-> op, reason |-> reason, ret |-> 0]
    /\ events' = <<>>
    /\ UNCHANGED storage
    /\ UNCHANGED <<registry, deployed, self>>

\* A call of a Ballot function that succeeds: it logs its events and writes
\* to no other contract.
\* Mutant of Succeeded: every event of the call is logged twice.
SucceededTwice(op, evs) ==
    /\ last' = [op |-> op, reason |-> "ok", ret |-> 0]
    /\ events' = evs \o evs
    /\ UNCHANGED <<registry, deployed, self>>

Succeeded(op, evs) ==
    /\ last' = [op |-> op, reason |-> "ok", ret |-> 0]
    /\ events' = evs
    /\ UNCHANGED <<registry, deployed, self>>

\* constructor(_proposalNames, _maxVotes, _allowDelegation, _owner)
constructor(n, mv, ad, o) ==
    /\ n > 0
    /\ n <= MaxProposals
    /\ owner = o
    /\ admins = [a \in Addr |-> a = o]
    /\ votingOpen = TRUE
    /\ allowDelegation = ad
    /\ maxVotes = mv
    /\ proposals = [i \in 0 .. n - 1 |-> Proposal(i)]
    /\ voters = [a \in Addr |-> Voter]
    /\ totalVoters = 0
    /\ votesCount = 0

\* the storage of a BallotFactory that has created nothing
NoBallots ==
    /\ ballots = <<>>
    /\ userBallots = [a \in Addr |-> <<>>]
    /\ deployed = <<>>

\* A Ballot deployed directly, as the tests of Ballot do.
Init ==
    /\ \E mv \in 0 .. MaxCapacity, ad \in BOOLEAN :
          constructor(NumProposals, mv, ad, Owner)
    /\ last = [op |-> "constructor", reason |-> "ok", ret |-> 0]
    /\ events = <<>>
    /\ NoBallots
    /\ self = BallotAddress(0)

\* last and events are the receipt of the latest transaction.  Transactions
\* are executed one at a time: the next one is sent once the receipt of the
\* previous one has been read.
NoReceipt == [op |-> "none", reason |-> "ok", ret |-> 0]

Ready == last = NoReceipt

NextTransaction ==
    /\ ~Ready
    /\ last' = NoReceipt
    /\ events' = <<>>
    /\ UNCHANGED storage
    /\ UNCHANGED <<registry, deployed, self>>

\* Mutant of onlyAdmin: the admins mapping is not consulted.
onlyAdminOwnerOnly(sender) == sender = owner

\* modifier onlyAdmin
onlyAdmin(sender) == admins[sender] \/ sender = owner

\* ---- addAdmin / removeAdmin ----------------------------------------------
\* Mutant of addAdminCheck: the two requires are in the other order.
addAdminCheckTargetFirst(sender, a) ==
    IF admins[a] THEN "Address is already an admin"
    ELSE IF sender # owner THEN "Only owner can add admins"
    ELSE "ok"

addAdminCheck(sender, a) ==
    IF sender # owner THEN "Only owner can add admins"
    ELSE IF admins[a] THEN "Address is already an admin"
    ELSE "ok"

addAdmin(sender, a) ==
    LET r == addAdminCheck(sender, a) IN
    IF r # "ok" THEN Reverted("addAdmin", r)
    ELSE /\ admins' = [admins EXCEPT ![a] = TRUE]
         /\ Succeeded("addAdmin", <<[name |-> "AdminAdded", a |-> a, b |-> 0]>>)
         /\ UNCHANGED <<proposals, voters, owner, totalVoters, votesCount,
                        votingOpen, allowDelegation, maxVotes>>

\* Mutant of removeAdminCheck: the require(_admin != owner) is missing.
removeAdminCheckNoOwnerGuard(sender, a) ==
    IF sender # owner THEN "Only owner can remove admins"
    ELSE IF ~admins[a] THEN "Address is not an admin"
    ELSE "ok"

removeAdminCheck(sender, a) ==
    IF sender # owner THEN "Only owner can remove admins"
    ELSE IF a = owner THEN "Cannot remove owner from admin role"
    ELSE IF ~admins[a] THEN "Address is not an admin"
    ELSE "ok"

removeAdmin(sender, a) ==
    LET r == removeAdminCheck(sender, a) IN
    IF r # "ok" THEN Reverted("removeAdmin", r)
    ELSE /\ admins' = [admins EXCEPT ![a] = FALSE]
         /\ Succeeded("removeAdmin", <<[name |-> "AdminRemoved", a |-> a, b |-> 0]>>)
         /\ UNCHANGED <<proposals, voters, owner, totalVoters, votesCount,
                        votingOpen, allowDelegation, maxVotes>>

\* isAdmin(_address)
isAdmin(a) == admins[a] \/ a = owner

\* ---- whitelistVoter -------------------------------------------------------
\* Mutant of whitelistVoterCheck: the require(!voters[_voter].isWhitelisted) is missing.
whitelistVoterCheckNoDuplicate(sender, v) ==
    IF ~onlyAdmin(sender) THEN "Only admin can call this function"
    ELSE IF ~(totalVoters < maxVotes) THEN "Maximum number of voters reached"
    ELSE "ok"

whitelistVoterCheck(sender, v) ==
    IF ~onlyAdmin(sender) THEN "Only admin can call this function"
    ELSE IF voters[v].isWhitelisted THEN "Voter already whitelisted"
    ELSE IF ~(totalVoters < maxVotes) THEN "Maximum number of voters reached"
    ELSE "ok"

whitelistVoter(sender, v) ==
    LET r == whitelistVoterCheck(sender, v) IN
    IF r # "ok" THEN Reverted("whitelistVoter", r)
    ELSE /\ voters' = [voters EXCEPT ![v].isWhitelisted = TRUE, ![v].weight = 1]
         /\ totalVoters' = totalVoters + 1
         /\ Succeeded("whitelistVoter", <<[name |-> "VoterWhitelisted", a |-> v, b |-> 0]>>)
         /\ UNCHANGED <<proposals, owner, admins, votesCount, votingOpen,
                        allowDelegation, maxVotes>>

\* ---- whitelistVoters ------------------------------------------------------
\* The loop of whitelistVoters from index i on, over a running copy st of
\* (voters, totalVoters, events): for (i; i < length && totalVoters < maxVotes; i++)
\* Mutant of whitelistLoop: the capacity test of the loop condition is off by one.
RECURSIVE whitelistLoopOverCapacity(_, _, _)
whitelistLoopOverCapacity(list, i, st) ==
    IF ~(i <= Len(list) /\ st.totalVoters <= maxVotes) THEN st
    ELSE IF ~st.voters[list[i]].isWhitelisted
         THEN whitelistLoopOverCapacity(list, i + 1,
                [voters |-> [st.voters EXCEPT ![list[i]].isWhitelisted = TRUE,
                                              ![list[i]].weight = 1],
                 totalVoters |-> st.totalVoters + 1,
                 events |-> Append(st.events,
                              [name |-> "VoterWhitelisted", a |-> list[i], b |-> 0])])
         ELSE whitelistLoopOverCapacity(list, i + 1, st)

\* Mutant of whitelistLoop: the if (!voters[_voters[i]].isWhitelisted) is
\* missing, every entry is whitelisted again.
RECURSIVE whitelistLoopNoSkip(_, _, _)
whitelistLoopNoSkip(list, i, st) ==
    IF ~(i <= Len(list) /\ st.totalVoters < maxVotes) THEN st
    ELSE whitelistLoopNoSkip(list, i + 1,
            [voters |-> [st.voters EXCEPT ![list[i]].isWhitelisted = TRUE,
                                          ![list[i]].weight = 1],
             totalVoters |-> st.totalVoters + 1,
             events |-> Append(st.events,
                          [name |-> "VoterWhitelisted", a |-> list[i], b |-> 0])])

RECURSIVE whitelistLoop(_, _, _)
whitelistLoop(list, i, st) ==
    IF ~(i <= Len(list) /\ st.totalVoters < maxVotes) THEN st
    ELSE IF ~st.voters[list[i]].isWhitelisted
         THEN whitelistLoop(list, i + 1,
                [voters |-> [st.voters EXCEPT ![list[i]].isWhitelisted = TRUE,
                                              ![list[i]].weight = 1],
                 totalVoters |-> st.totalVoters + 1,
                 events |-> Append(st.events,
                              [name |-> "VoterWhitelisted", a |-> list[i], b |-> 0])])
         ELSE whitelistLoop(list, i + 1, st)

whitelistVoters(sender, list) ==
    IF ~onlyAdmin(sender)
    THEN Reverted("whitelistVoters", "Only admin can call this function")
    ELSE LET st == whitelistLoop(list, 1,
                     [voters |-> voters, totalVoters |-> totalVoters, events |-> <<>>]) IN
         /\ Succeeded("whitelistVoters", st.events)
         /\ voters' = st.voters
         /\ totalVoters' = st.totalVoters
         /\ UNCHANGED <<proposals, owner, admins, votesCount, votingOpen,
                        allowDelegation, maxVotes>>

\* ---- delegate -------------------------------------------------------------
\* The forwarding loop of delegate: while (voters[to].delegate != address(0))
\* { to = voters[to].delegate; require(to != msg.sender) }.  gas bounds the
\* number of iterations a transaction can pay for.
\* Mutant of forward: the loop is skipped, so the delegation stays on _to.
forwardNoWalk(to, sender, gas) == [reason |-> "ok", to |-> to]

\* Mutant of forward: the require(to != msg.sender) inside the loop is missing.
RECURSIVE forwardNoLoopCheck(_, _, _)
forwardNoLoopCheck(to, sender, gas) ==
    IF voters[to].delegate = Zero THEN [reason |-> "ok", to |-> to]
    ELSE IF gas = 0 THEN [reason |-> "out of gas", to |-> to]
    ELSE forwardNoLoopCheck(voters[to].delegate, sender, gas - 1)

RECURSIVE forward(_, _, _)
forward(to, sender, gas) ==
    IF voters[to].delegate = Zero THEN [reason |-> "ok", to |-> to]
    ELSE IF voters[to].delegate = sender
         THEN [reason |-> "Loop in delegation detected", to |-> sender]
    ELSE IF gas = 0 THEN [reason |-> "out of gas", to |-> to]
    ELSE forward(voters[to].delegate, sender, gas - 1)

\* Mutant of delegateCheck: the require(!voters[msg.sender].hasVoted) is missing.
delegateCheckNoHasVoted(sender, _to) ==
    IF ~votingOpen THEN "Voting is not open"
    ELSE IF ~allowDelegation THEN "Delegation not allowed in this ballot"
    ELSE IF ~voters[sender].isWhitelisted THEN "Not whitelisted to vote"
    ELSE IF _to = sender THEN "Cannot delegate to yourself"
    ELSE IF ~voters[_to].isWhitelisted THEN "Delegate not whitelisted"
    ELSE forward(_to, sender, Cardinality(Addr)).reason

\* Mutant of delegateCheck: the require(voters[_to].isWhitelisted) is missing.
delegateCheckNoTargetWhitelist(sender, _to) ==
    IF ~votingOpen THEN "Voting is not open"
    ELSE IF ~allowDelegation THEN "Delegation not allowed in this ballot"
    ELSE IF ~voters[sender].isWhitelisted THEN "Not whitelisted to vote"
    ELSE IF voters[sender].hasVoted THEN "Already voted"
    ELSE IF _to = sender THEN "Cannot delegate to yourself"
    ELSE forward(_to, sender, Cardinality(Addr)).reason

\* Mutant of delegateCheck: the modifier votingIsOpen is missing.
delegateCheckNoOpen(sender, _to) ==
    IF ~allowDelegation THEN "Delegation not allowed in this ballot"
    ELSE IF ~voters[sender].isWhitelisted THEN "Not whitelisted to vote"
    ELSE IF voters[sender].hasVoted THEN "Already voted"
    ELSE IF _to = sender THEN "Cannot delegate to yourself"
    ELSE IF ~voters[_to].isWhitelisted THEN "Delegate not whitelisted"
    ELSE forward(_to, sender, Cardinality(Addr)).reason

delegateCheck(sender, _to) ==
    IF ~votingOpen THEN "Voting is not open"
    ELSE IF ~allowDelegation THEN "Delegation not allowed in this ballot"
    ELSE IF ~voters[sender].isWhitelisted THEN "Not whitelisted to vote"
    ELSE IF voters[sender].hasVoted THEN "Already voted"
    ELSE IF _to = sender THEN "Cannot delegate to yourself"
    ELSE IF ~voters[_to].isWhitelisted THEN "Delegate not whitelisted"
    ELSE forward(_to, sender, Cardinality(Addr)).reason

\* Mutant of delegateTransfer: the branch on voters[to].hasVoted is missing,
\* the weight always goes to the delegate.
delegateTransferDeferred(sender, to) ==
    LET v1 == [voters EXCEPT ![sender].delegate = to, ![sender].hasVoted = TRUE] IN
    [voters |-> [v1 EXCEPT ![to].weight = @ + v1[sender].weight],
     proposals |-> proposals]

\* Mutant of delegateTransfer: one unit is moved instead of the sender's weight.
delegateTransferUnit(sender, to) ==
    LET v1 == [voters EXCEPT ![sender].delegate = to, ![sender].hasVoted = TRUE] IN
    IF v1[to].hasVoted
    THEN [voters |-> v1,
          proposals |-> [proposals EXCEPT ![v1[to].votedProposalId].voteCount = @ + 1]]
    ELSE [voters |-> [v1 EXCEPT ![to].weight = @ + 1],
          proposals |-> proposals]

\* Mutant of delegateTransfer: the sender's weight is moved, not copied.
delegateTransferMove(sender, to) ==
    LET v1 == [voters EXCEPT ![sender].delegate = to, ![sender].hasVoted = TRUE] IN
    IF v1[to].hasVoted
    THEN [voters |-> [v1 EXCEPT ![sender].weight = 0],
          proposals |-> [proposals EXCEPT ![v1[to].votedProposalId].voteCount =
                             @ + v1[sender].weight]]
    ELSE [voters |-> [v1 EXCEPT ![to].weight = @ + v1[sender].weight,
                                ![sender].weight = 0],
          proposals |-> proposals]

\* The writes of delegate once the forwarding loop has resolved `to`:
\* the sender's record, then the weight into the tally or into `to`.
delegateTransfer(sender, to) ==
    LET v1 == [voters EXCEPT ![sender].delegate = to, ![sender].hasVoted = TRUE] IN
    IF v1[to].hasVoted
    THEN [voters |-> v1,
          proposals |-> [proposals EXCEPT ![v1[to].votedProposalId].voteCount =
                             @ + v1[sender].weight]]
    ELSE [voters |-> [v1 EXCEPT ![to].weight = @ + v1[sender].weight],
          proposals |-> proposals]

\* Mutant of delegate: the event carries the requested _to, not the resolved to.
delegateEmitsTarget(sender, _to) ==
    LET r == delegateCheck(sender, _to) IN
    IF r # "ok" THEN Reverted("delegate", r)
    ELSE LET to == forward(_to, sender, Cardinality(Addr)).to
             st == delegateTransfer(sender, to)
         IN
         /\ voters' = st.voters
         /\ proposals' = st.proposals
         /\ Succeeded("delegate", <<[name |-> "DelegatedVote", a |-> sender, b |-> _to]>>)
         /\ UNCHANGED <<owner, admins, totalVoters, votesCount, votingOpen,
                        allowDelegation, maxVotes>>

delegate(sender, _to) ==
    LET r == delegateCheck(sender, _to) IN
    IF r # "ok" THEN Reverted("delegate", r)
    ELSE LET to == forward(_to, sender, Cardinality(Addr)).to
             st == delegateTransfer(sender, to)
         IN
         /\ voters' = st.voters
         /\ proposals' = st.proposals
         /\ Succeeded("delegate", <<[name |-> "DelegatedVote", a |-> sender, b |-> to]>>)
         /\ UNCHANGED <<owner, admins, totalVoters, votesCount, votingOpen,
                        allowDelegation, maxVotes>>

\* ---- vote -----------------------------------------------------------------
\* Mutant of voteCheck: the require(voters[msg.sender].isWhitelisted) is missing.
voteCheckNoWhitelist(sender, _proposalId) ==
    IF ~votingOpen THEN "Voting is not open"
    ELSE IF voters[sender].hasVoted THEN "Already voted"
    ELSE IF ~(_proposalId < ProposalsLength) THEN "Invalid proposal"
    ELSE "ok"

\* Mutant of voteCheck: the modifier votingIsOpen is missing.
voteCheckNoOpen(sender, _proposalId) ==
    IF ~voters[sender].isWhitelisted THEN "Not whitelisted to vote"
    ELSE IF voters[sender].hasVoted THEN "Already voted"
    ELSE IF ~(_proposalId < ProposalsLength) THEN "Invalid proposal"
    ELSE "ok"

voteCheck(sender, _proposalId) ==
    IF ~votingOpen THEN "Voting is not open"
    ELSE IF ~voters[sender].isWhitelisted THEN "Not whitelisted to vote"
    ELSE IF voters[sender].hasVoted THEN "Already voted"
    ELSE IF ~(_proposalId < ProposalsLength) THEN "Invalid proposal"
    ELSE "ok"

\* Mutant of voteTally: the vote counts one unit, not the sender's weight.
voteTallyUnit(sender, _proposalId) ==
    [proposals EXCEPT ![_proposalId].voteCount = @ + 1]

\* Mutant of voteTally: the sender's weight is added to every proposal.
voteTallyAll(sender, _proposalId) ==
    [i \in DOMAIN proposals |->
        [proposals[i] EXCEPT !.voteCount = @ + voters[sender].weight]]

\* proposals[_proposalId].voteCount += voters[msg.sender].weight
voteTally(sender, _proposalId) ==
    [proposals EXCEPT ![_proposalId].voteCount = @ + voters[sender].weight]

vote(sender, _proposalId) ==
    LET r == voteCheck(sender, _proposalId) IN
    IF r # "ok" THEN Reverted("vote", r)
    ELSE /\ voters' = [voters EXCEPT ![sender].hasVoted = TRUE,
                                     ![sender].votedProposalId = _proposalId]
         /\ proposals' = voteTally(sender, _proposalId)
         /\ votesCount' = votesCount + 1
         /\ Succeeded("vote", <<[name |-> "VoteCast", a |-> sender, b |-> _proposalId]>>)
         /\ UNCHANGED <<owner, admins, totalVoters, votingOpen, allowDelegation, maxVotes>>

\* ---- setVotingState -------------------------------------------------------
\* Mutant of setVotingState: a call that would not change the flag is refused.
setVotingStateOnChange(sender, _isOpen) ==
    IF ~onlyAdmin(sender)
    THEN Reverted("setVotingState", "Only admin can call this function")
    ELSE IF votingOpen = _isOpen
    THEN Reverted("setVotingState", "Voting state unchanged")
    ELSE /\ votingOpen' = _isOpen
         /\ Succeeded("setVotingState",
                      <<[name |-> "VotingStateChanged", a |-> 0, b |-> IF _isOpen THEN 1 ELSE 0]>>)
         /\ UNCHANGED <<proposals, voters, owner, admins, totalVoters, votesCount,
                        allowDelegation, maxVotes>>

setVotingState(sender, _isOpen) ==
    IF ~onlyAdmin(sender)
    THEN Reverted("setVotingState", "Only admin can call this function")
    ELSE /\ votingOpen' = _isOpen
         /\ Succeeded("setVotingState",
                      <<[name |-> "VotingStateChanged", a |-> 0, b |-> IF _isOpen THEN 1 ELSE 0]>>)
         /\ UNCHANGED <<proposals, voters, owner, admins, totalVoters, votesCount,
                        allowDelegation, maxVotes>>

\* ---- winningProposal ------------------------------------------------------
\* The scan of winningProposal from index p on, with the running maximum
\* winningVoteCount and the running winner winningProposalId.
\* Mutant of winningScan: the comparison is >=, so a later tie replaces the winner.
RECURSIVE winningScanLastTie(_, _, _, _)
winningScanLastTie(props, p, winningVoteCount, winningProposalId) ==
    IF ~(p < Cardinality(DOMAIN props)) THEN winningProposalId
    ELSE IF props[p].voteCount >= winningVoteCount
         THEN winningScanLastTie(props, p + 1, props[p].voteCount, p)
         ELSE winningScanLastTie(props, p + 1, winningVoteCount, winningProposalId)

RECURSIVE winningScan(_, _, _, _)
winningScan(props, p, winningVoteCount, winningProposalId) ==
    IF ~(p < Cardinality(DOMAIN props)) THEN winningProposalId
    ELSE IF props[p].voteCount > winningVoteCount
         THEN winningScan(props, p + 1, props[p].voteCount, p)
         ELSE winningScan(props, p + 1, winningVoteCount, winningProposalId)

winningProposal == winningScan(proposals, 0, 0, 0)

\* A call of the view winningProposal(): it returns the winner and writes nothing.
WinningProposalCall ==
    /\ last' = [op |-> "winningProposal", reason |-> "ok", ret |-> winningProposal]
    /\ events' = <<>>
    /\ UNCHANGED storage
    /\ UNCHANGED <<registry, deployed, self>>

\* ---- inputs ---------------------------------------------------------------
\* the lists given to whitelistVoters: up to MaxBatch entries, repeats
\* allowed, over the zero address and two accounts
BatchAddrs == {Zero, Owner, Owner + 1}
Lists == UNION {[1 .. n -> BatchAddrs] : n \in 0 .. MaxBatch}
AdminTargets == {Owner, Owner + 1}
\* senders of the owner- and admin-gated calls: the owner, the account that
\* may be made an admin, and an account that never is one
GatedSenders == {Owner, Owner + 1, NumAccounts}

AddAdminCall == Ready /\ \E s \in GatedSenders, a \in AdminTargets : addAdmin(s, a)
RemoveAdminCall == Ready /\ \E s \in GatedSenders, a \in AdminTargets : removeAdmin(s, a)
WhitelistVoterCall == Ready /\ \E s \in GatedSenders, v \in Addr : whitelistVoter(s, v)
WhitelistVotersCall == Ready /\ \E s \in GatedSenders, l \in Lists : whitelistVoters(s, l)
DelegateCall == Ready /\ \E s \in Accounts, t \in Addr : delegate(s, t)
VoteCall == Ready /\ \E s \in Accounts, p \in 0 .. NumProposals : vote(s, p)
SetVotingStateCall == Ready /\ \E s \in GatedSenders, b \in BOOLEAN : setVotingState(s, b)

Next ==
    \/ AddAdminCall
    \/ RemoveAdminCall
    \/ WhitelistVoterCall
    \/ WhitelistVotersCall
    \/ DelegateCall
    \/ VoteCall
    \/ SetVotingStateCall
    \/ NextTransaction

Spec == Init /\ [][Next]_vars

\* ---- winningProposal as a function of the tally --------------------------
\* A ballot of 1..MaxProposals proposals holding any tally up to MaxTally.
Tallies == UNION {[0 .. n - 1 -> 0 .. MaxTally] : n \in 1 .. MaxProposals}

WinInit ==
    /\ \E t \in Tallies :
          proposals = [i \in DOMAIN t |-> [name |-> i, voteCount |-> t[i]]]
    /\ owner = Owner
    /\ admins = [a \in Addr |-> a = Owner]
    /\ votingOpen = TRUE
    /\ allowDelegation = TRUE
    /\ maxVotes = MaxTally * MaxProposals
    /\ voters = [a \in Addr |-> Voter]
    /\ totalVoters = 0
    /\ votesCount = 0
    /\ last = NoReceipt
    /\ events = <<>>
    /\ NoBallots
    /\ self = BallotAddress(0)

WinNext == Ready /\ WinningProposalCall

WinSpec == WinInit /\ [][WinNext]_vars

\* ---- whitelistVoters as a function of the whitelist ---------------------------
\* A ballot on which voters have been whitelisted one by one, and Owner + 1
\* possibly made an admin, before any vote or delegation; whitelistVoters
\* reads nothing else of the storage.
BatchInit ==
    /\ \E mv \in 0 .. MaxCapacity, W \in SUBSET Addr, A \in SUBSET {Owner + 1} :
          /\ Cardinality(W) <= mv
          /\ maxVotes = mv
          /\ voters = [a \in Addr |->
                         IF a \in W
                         THEN [Voter EXCEPT !.isWhitelisted = TRUE, !.weight = 1]
                         ELSE Voter]
          /\ totalVoters = Cardinality(W)
          /\ admins = [a \in Addr |-> a = Owner \/ a \in A]
    /\ proposals = [i \in 0 .. NumProposals - 1 |-> Proposal(i)]
    /\ owner = Owner
    /\ votingOpen = TRUE
    /\ allowDelegation = TRUE
    /\ votesCount = 0
    /\ last = NoReceipt
    /\ events = <<>>
    /\ NoBallots
    /\ self = BallotAddress(0)

BatchNext == WhitelistVotersCall \/ NextTransaction

BatchSpec == BatchInit /\ [][BatchNext]_vars

\* ---- BallotFactory --------------------------------------------------------
\* the storage of the Ballot at self, as one value
BallotStorage ==
    [proposals |-> proposals, voters |-> voters, owner |-> owner, admins |-> admins,
     totalVoters |-> totalVoters, votesCount |-> votesCount, votingOpen |-> votingOpen,
     allowDelegation |-> allowDelegation, maxVotes |-> maxVotes]

\* Mutant of constructed: the admins[_owner] = true of the constructor is missing.
constructedNoAdmin(n, mv, ad, o) ==
    [proposals |-> [i \in 0 .. n - 1 |-> Proposal(i)],
     voters |-> [a \in Addr |-> Voter],
     owner |-> o,
     admins |-> [a \in Addr |-> FALSE],
     totalVoters |-> 0,
     votesCount |-> 0,
     votingOpen |-> TRUE,
     allowDelegation |-> ad,
     maxVotes |-> mv]

\* the storage of a Ballot when its constructor returns
constructed(n, mv, ad, o) ==
    [proposals |-> [i \in 0 .. n - 1 |-> Proposal(i)],
     voters |-> [a \in Addr |-> Voter],
     owner |-> o,
     admins |-> [a \in Addr |-> a = o],
     totalVoters |-> 0,
     votesCount |-> 0,
     votingOpen |-> TRUE,
     allowDelegation |-> ad,
     maxVotes |-> mv]

\* the storage of the Ballot at address b
StorageOf(b) == IF b = self THEN BallotStorage ELSE deployed[b]

\* Mutant of constructorCheck: the require(_proposalNames.length <= 5) is missing.
constructorCheckNoUpper(n) ==
    IF ~(n > 0) THEN "Must have at least one proposal"
    ELSE "ok"

\* the requires of the Ballot constructor
constructorCheck(n) ==
    IF ~(n > 0) THEN "Must have at least one proposal"
    ELSE IF ~(n <= MaxProposals) THEN "Maximum 5 proposals allowed"
    ELSE "ok"

\* A transaction that deploys a Ballot directly, at BallotAddress(0): it runs
\* the constructor; when that reverts no contract exists afterwards.
deploy(n, mv, ad, o) ==
    LET r == constructorCheck(n) IN
    IF r # "ok" THEN Reverted("constructor", r)
    ELSE /\ proposals' = constructed(n, mv, ad, o).proposals
         /\ voters' = constructed(n, mv, ad, o).voters
         /\ owner' = constructed(n, mv, ad, o).owner
         /\ admins' = constructed(n, mv, ad, o).admins
         /\ totalVoters' = constructed(n, mv, ad, o).totalVoters
         /\ votesCount' = constructed(n, mv, ad, o).votesCount
         /\ votingOpen' = constructed(n, mv, ad, o).votingOpen
         /\ allowDelegation' = constructed(n, mv, ad, o).allowDelegation
         /\ maxVotes' = constructed(n, mv, ad, o).maxVotes
         /\ self' = BallotAddress(0)
         /\ last' = [op |-> "constructor", reason |-> "ok", ret |-> BallotAddress(0)]
         /\ events' = <<>>
         /\ UNCHANGED <<registry, deployed>>

\* Mutant of BallotInfo: the owner field is left at its zero value.
BallotInfoNoOwner(ballotAddress, description, sender, mv, ad, n) ==
    [ballotAddress |-> ballotAddress, description |-> description, owner |-> Zero,
     maxVotes |-> mv, allowDelegation |-> ad, proposalCount |-> n, isActive |-> TRUE]

\* Mutant of BallotInfo: the record is stored with isActive false.
BallotInfoInactive(ballotAddress, description, sender, mv, ad, n) ==
    [ballotAddress |-> ballotAddress, description |-> description, owner |-> sender,
     maxVotes |-> mv, allowDelegation |-> ad, proposalCount |-> n, isActive |-> FALSE]

\* struct BallotInfo as built by createBallot
BallotInfo(ballotAddress, description, sender, mv, ad, n) ==
    [ballotAddress |-> ballotAddress, description |-> description, owner |-> sender,
     maxVotes |-> mv, allowDelegation |-> ad, proposalCount |-> n, isActive |-> TRUE]

\* Mutant of createBallotCheck: no length is tested by either contract.
createBallotCheckUnchecked(n) == "ok"

\* the requires of createBallot, then those of the Ballot constructor that
\* `new Ballot` runs and whose revert createBallot passes on
createBallotCheck(n) ==
    IF ~(n > 0) THEN "Must provide at least one proposal"
    ELSE IF ~(n <= MaxProposals) THEN "Maximum 5 proposals allowed"
    ELSE constructorCheck(n)

\* Mutant of createBallot: the record is pushed to ballots before the
\* requires are tested and stays there when they fail.
createBallotRecordsFirst(sender, n, description, mv, ad) ==
    LET r == createBallotCheck(n)
        ballotAddress == BallotAddress(Len(ballots) + 1)
        ballotInfo == BallotInfo(ballotAddress, description, sender, mv, ad, n)
    IN
    IF r # "ok"
    THEN /\ ballots' = Append(ballots, ballotInfo)
         /\ last' = [op |-> "createBallot", reason |-> r, ret |-> 0]
         /\ events' = <<>>
         /\ UNCHANGED <<storage, userBallots, deployed, self>>
    ELSE /\ deployed' = deployed @@ (ballotAddress :> constructed(n, mv, ad, sender))
         /\ ballots' = Append(ballots, ballotInfo)
         /\ userBallots' = [userBallots EXCEPT ![sender] = Append(@, ballotInfo)]
         /\ last' = [op |-> "createBallot", reason |-> "ok", ret |-> ballotAddress]
         /\ events' = <<[name |-> "BallotCreated", a |-> ballotAddress, b |-> sender,
                          description |-> description, maxVotes |-> mv,
                          allowDelegation |-> ad, proposalCount |-> n]>>
         /\ UNCHANGED <<storage, self>>

\* Mutant of createBallot: userBallots[msg.sender].push(ballotInfo) is missing.
createBallotGlobalOnly(sender, n, description, mv, ad) ==
    LET r == createBallotCheck(n) IN
    IF r # "ok" THEN Reverted("createBallot", r)
    ELSE LET ballotAddress == BallotAddress(Len(ballots) + 1)
             ballotInfo == BallotInfo(ballotAddress, description, sender, mv, ad, n)
         IN
         /\ deployed' = deployed @@ (ballotAddress :> constructed(n, mv, ad, sender))
         /\ ballots' = Append(ballots, ballotInfo)
         /\ last' = [op |-> "createBallot", reason |-> "ok", ret |-> ballotAddress]
         /\ events' = <<[name |-> "BallotCreated", a |-> ballotAddress, b |-> sender,
                          description |-> description, maxVotes |-> mv,
                          allowDelegation |-> ad, proposalCount |-> n]>>
         /\ UNCHANGED <<storage, userBallots, self>>

\* Mutant of createBallot: the record is put at the front of ballots.
createBallotPrepend(sender, n, description, mv, ad) ==
    LET r == createBallotCheck(n) IN
    IF r # "ok" THEN Reverted("createBallot", r)
    ELSE LET ballotAddress == BallotAddress(Len(ballots) + 1)
             ballotInfo == BallotInfo(ballotAddress, description, sender, mv, ad, n)
         IN
         /\ deployed' = deployed @@ (ballotAddress :> constructed(n, mv, ad, sender))
         /\ ballots' = <<ballotInfo>> \o ballots
         /\ userBallots' = [userBallots EXCEPT ![sender] = Append(@, ballotInfo)]
         /\ last' = [op |-> "createBallot", reason |-> "ok", ret |-> ballotAddress]
         /\ events' = <<[name |-> "BallotCreated", a |-> ballotAddress, b |-> sender,
                          description |-> description, maxVotes |-> mv,
                          allowDelegation |-> ad, proposalCount |-> n]>>
         /\ UNCHANGED <<storage, self>>

\* createBallot(proposalNames, description, maxVotes, allowDelegation), with
\* n the length of proposalNames
createBallot(sender, n, description, mv, ad) ==
    LET r == createBallotCheck(n) IN
    IF r # "ok" THEN Reverted("createBallot", r)
    ELSE LET ballotAddress == BallotAddress(Len(ballots) + 1)
             ballotInfo == BallotInfo(ballotAddress, description, sender, mv, ad, n)
         IN
         /\ deployed' = deployed @@ (ballotAddress :> constructed(n, mv, ad, sender))
         /\ ballots' = Append(ballots, ballotInfo)
         /\ userBallots' = [userBallots EXCEPT ![sender] = Append(@, ballotInfo)]
         /\ last' = [op |-> "createBallot", reason |-> "ok", ret |-> ballotAddress]
         /\ events' = <<[name |-> "BallotCreated", a |-> ballotAddress, b |-> sender,
                          description |-> description, maxVotes |-> mv,
                          allowDelegation |-> ad, proposalCount |-> n]>>
         /\ UNCHANGED <<storage, self>>

\* ---- views of the factory ---------------------------------------------------
getAllBallots == ballots

getUserBallots(user) == userBallots[user]

\* first loop of getActiveBallots: activeCount after ballots[0 .. i-1]
RECURSIVE activeCount(_)
activeCount(i) ==
    IF i = 0 THEN 0
    ELSE activeCount(i - 1) + (IF ballots[i].isActive THEN 1 ELSE 0)

\* an element of new BallotInfo[](activeCount) before it is assigned
EmptyBallotInfo ==
    [ballotAddress |-> Zero, description |-> "", owner |-> Zero, maxVotes |-> 0,
     allowDelegation |-> FALSE, proposalCount |-> 0, isActive |-> FALSE]

\* second loop of getActiveBallots: activeBallots and index after
\* ballots[0 .. i-1]
RECURSIVE activeFill(_)
activeFill(i) ==
    IF i = 0
    THEN [activeBallots |-> [k \in 1 .. activeCount(Len(ballots)) |-> EmptyBallotInfo],
          index |-> 0]
    ELSE LET before == activeFill(i - 1) IN
         IF ballots[i].isActive
         THEN [activeBallots |-> [before.activeBallots EXCEPT ![before.index + 1] = ballots[i]],
               index |-> before.index + 1]
         ELSE before

getActiveBallots == activeFill(Len(ballots)).activeBallots

\* Ballot.getBallotStatus() of the Ballot whose storage is st
ballotStatus(st) ==
    <<st.totalVoters, st.votesCount, st.votingOpen, st.allowDelegation, st.maxVotes>>

\* Mutant of getBallotStatus: the status is the one the ballot had when it
\* was created, taken from the record, in place of the call to the Ballot.
getBallotStatusSnapshot(ballotIndex) ==
    IF ~(ballotIndex < Len(ballots)) THEN [reason |-> "Invalid ballot index"]
    ELSE LET ballot == ballots[ballotIndex + 1]
         IN [reason |-> "ok",
             isActive |-> ballot.isActive,
             totalVoters |-> 0,
             votesCount |-> 0,
             votingOpen |-> TRUE,
             allowDelegation |-> ballot.allowDelegation,
             maxVotes |-> ballot.maxVotes]

\* BallotFactory.getBallotStatus(ballotIndex); ballots[ballotIndex] of the
\* code is element ballotIndex + 1 of the sequence
getBallotStatus(ballotIndex) ==
    IF ~(ballotIndex < Len(ballots)) THEN [reason |-> "Invalid ballot index"]
    ELSE LET ballot == ballots[ballotIndex + 1]
             status == ballotStatus(StorageOf(ballot.ballotAddress))
         IN [reason |-> "ok",
             isActive |-> ballot.isActive,
             totalVoters |-> status[1],
             votesCount |-> status[2],
             votingOpen |-> status[3],
             allowDelegation |-> status[4],
             maxVotes |-> status[5]]

\* Mutant of Select: the voters mapping is one storage shared by every Ballot.
SelectSharedVoters(b) ==
    /\ b \in DOMAIN deployed
    /\ proposals' = deployed[b].proposals
    /\ voters' = voters
    /\ owner' = deployed[b].owner
    /\ admins' = deployed[b].admins
    /\ totalVoters' = deployed[b].totalVoters
    /\ votesCount' = deployed[b].votesCount
    /\ votingOpen' = deployed[b].votingOpen
    /\ allowDelegation' = deployed[b].allowDelegation
    /\ maxVotes' = deployed[b].maxVotes
    /\ deployed' = [a \in (DOMAIN deployed \ {b}) \cup ({self} \ {NoBallot}) |->
                       IF a = self THEN BallotStorage ELSE deployed[a]]
    /\ self' = b
    /\ UNCHANGED <<registry, last, events>>

\* The next transactions go to the Ballot at address b: its storage is the
\* one the Ballot functions read and write, that of the Ballot addressed so
\* far is kept with the others.
Select(b) ==
    /\ b \in DOMAIN deployed
    /\ proposals' = deployed[b].proposals
    /\ voters' = deployed[b].voters
    /\ owner' = deployed[b].owner
    /\ admins' = deployed[b].admins
    /\ totalVoters' = deployed[b].totalVoters
    /\ votesCount' = deployed[b].votesCount
    /\ votingOpen' = deployed[b].votingOpen
    /\ allowDelegation' = deployed[b].allowDelegation
    /\ maxVotes' = deployed[b].maxVotes
    /\ deployed' = [a \in (DOMAIN deployed \ {b}) \cup ({self} \ {NoBallot}) |->
                       IF a = self THEN BallotStorage ELSE deployed[a]]
    /\ self' = b
    /\ UNCHANGED <<registry, last, events>>

\* ---- the factory and the ballots it creates --------------------------------
\* A BallotFactory that has created nothing; no Ballot exists, so the storage
\* read at self is all zero.
FactoryInit ==
    /\ NoBallots
    /\ self = NoBallot
    /\ proposals = <<>>
    /\ voters = [a \in Addr |-> Voter]
    /\ owner = Zero
    /\ admins = [a \in Addr |-> FALSE]
    /\ totalVoters = 0
    /\ votesCount = 0
    /\ votingOpen = FALSE
    /\ allowDelegation = FALSE
    /\ maxVotes = 0
    /\ last = NoReceipt
    /\ events = <<>>

\* inputs of the factory's transactions
Creators == {Owner, Owner + 1}
ProposalCounts == {0, 1, MaxProposals + 1}
Descriptions == {"d"}
Capacities == {1}
Electors == {Owner + 1}

\* a transaction to the Ballot at self
ToBallot == Ready /\ self # NoBallot

CreateBallotCall ==
    /\ Ready
    /\ \E s \in Creators, n \in ProposalCounts, d \in Descriptions,
          mv \in Capacities, ad \in BOOLEAN :
          /\ createBallotCheck(n) = "ok" => Len(ballots) < MaxBallots
          /\ createBallot(s, n, d, mv, ad)
SelectCall == Ready /\ \E b \in DOMAIN deployed : Select(b)
\* the admin set of these ballots stays as constructed (Spec exercises it):
\* addAdmin names the owner, removeAdmin an account outside the set
BallotAddAdmin == ToBallot /\ \E s \in Creators : addAdmin(s, owner)
BallotRemoveAdmin == ToBallot /\ \E s \in Creators, a \in Creators : removeAdmin(s, a)
BallotWhitelistVoter == ToBallot /\ \E s \in Creators, v \in Electors : whitelistVoter(s, v)
BallotWhitelistVoters ==
    ToBallot /\ \E s \in Creators, v \in Electors : whitelistVoters(s, <<v, v>>)
BallotDelegate == ToBallot /\ \E s \in Creators, t \in Creators : delegate(s, t)
BallotVote == ToBallot /\ \E s \in Creators, p \in 0 .. 1 : vote(s, p)
BallotSetVotingState == ToBallot /\ \E s \in Creators, b \in BOOLEAN : setVotingState(s, b)

FactoryNext ==
    \/ CreateBallotCall
    \/ SelectCall
    \/ BallotAddAdmin
    \/ BallotRemoveAdmin
    \/ BallotWhitelistVoter
    \/ BallotWhitelistVoters
    \/ BallotDelegate
    \/ BallotVote
    \/ BallotSetVotingState
    \/ NextTransaction

FactorySpec == FactoryInit /\ [][FactoryNext]_vars

\* ---- a ballot deployed directly --------------------------------------------
\* No contract exists yet; one Ballot is deployed with any constructor
\* arguments, then takes transactions.
DeployInit == FactoryInit

DeployCall ==
    /\ Ready
    /\ self = NoBallot
    /\ \E n \in 0 .. MaxProposals + 1, mv \in 0 .. MaxCapacity, ad \in BOOLEAN, o \in Addr :
          deploy(n, mv, ad, o)

DeployNext ==
    \/ DeployCall
    \/ BallotAddAdmin
    \/ BallotRemoveAdmin
    \/ BallotWhitelistVoter
    \/ BallotWhitelistVoters
    \/ BallotDelegate
    \/ BallotVote
    \/ BallotSetVotingState
    \/ NextTransaction

DeploySpec == DeployInit /\ [][DeployNext]_vars

\* ---- the registry of the factory ---------------------------------------------
\* The factory alone: ballots are created by two accounts with differing
\* arguments and never called.
RegistryCounts == {0, 1, MaxProposals, MaxProposals + 1}
RegistryDescriptions == {"a", "b"}
RegistryCapacities == {0, MaxCapacity}

RegistryInit == FactoryInit

RegistryCreateBallot ==
    /\ Ready
    /\ \E s \in Creators, n \in RegistryCounts, d \in RegistryDescriptions,
          mv \in RegistryCapacities, ad \in BOOLEAN :
          /\ createBallotCheck(n) = "ok" => Len(ballots) < MaxBallots
          /\ createBallot(s, n, d, mv, ad)

RegistryNext == RegistryCreateBallot \/ NextTransaction

RegistrySpec == RegistryInit /\ [][RegistryNext]_vars

\* ---- delegate and vote in either order ---------------------------------------
\* Two Ballots deployed with the same arguments that have taken the same
\* transactions: accounts OrderA and OrderB are whitelisted and have neither
\* voted nor delegated; every other address is not whitelisted, whitelisted
\* only, has voted, or has delegated to OrderA or to OrderB.  Each ballot then
\* takes delegate(OrderB) from OrderA and vote(p) from OrderB, in any order.
OrderA == Owner
OrderB == Owner + 1
Others == Addr \ {OrderA, OrderB}

Histories ==
    {[kind |-> k, p |-> 0] : k \in {"none", "whitelisted", "toA", "toB"}}
        \cup {[kind |-> "voted", p |-> q] : q \in 0 .. NumProposals - 1}

\* the storage those transactions leave, h giving the history of each of Others
orderStorage(h) ==
    [proposals |-> [i \in 0 .. NumProposals - 1 |->
                       [name |-> i,
                        voteCount |-> Cardinality({c \in Others :
                                         h[c].kind = "voted" /\ h[c].p = i})]],
     voters |-> [v \in Addr |->
                    IF v = OrderA
                    THEN [Voter EXCEPT !.isWhitelisted = TRUE,
                             !.weight = 1 + Cardinality({c \in Others : h[c].kind = "toA"})]
                    ELSE IF v = OrderB
                    THEN [Voter EXCEPT !.isWhitelisted = TRUE,
                             !.weight = 1 + Cardinality({c \in Others : h[c].kind = "toB"})]
                    ELSE IF h[v].kind = "none" THEN Voter
                    ELSE IF h[v].kind = "whitelisted"
                    THEN [Voter EXCEPT !.isWhitelisted = TRUE, !.weight = 1]
                    ELSE IF h[v].kind = "voted"
                    THEN [Voter EXCEPT !.isWhitelisted = TRUE, !.weight = 1,
                             !.hasVoted = TRUE, !.votedProposalId = h[v].p]
                    ELSE [Voter EXCEPT !.isWhitelisted = TRUE, !.weight = 1,
                             !.hasVoted = TRUE,
                             !.delegate = IF h[v].kind = "toA" THEN OrderA ELSE OrderB]],
     owner |-> Owner,
     admins |-> [a \in Addr |-> a = Owner],
     totalVoters |-> 2 + Cardinality({c \in Others : h[c].kind # "none"}),
     votesCount |-> Cardinality({c \in Others : h[c].kind = "voted"}),
     votingOpen |-> TRUE,
     allowDelegation |-> TRUE,
     maxVotes |-> MaxCapacity]

OrderInit ==
    /\ \E h \in [Others -> Histories] :
          /\ h[Zero].kind \in {"none", "whitelisted"}
          /\ orderStorage(h).totalVoters <= MaxCapacity
          /\ proposals = orderStorage(h).proposals
          /\ voters = orderStorage(h).voters
          /\ owner = orderStorage(h).owner
          /\ admins = orderStorage(h).admins
          /\ totalVoters = orderStorage(h).totalVoters
          /\ votesCount = orderStorage(h).votesCount
          /\ votingOpen = orderStorage(h).votingOpen
          /\ allowDelegation = orderStorage(h).allowDelegation
          /\ maxVotes = orderStorage(h).maxVotes
          /\ deployed = (BallotAddress(1) :> orderStorage(h))
    /\ self = BallotAddress(0)
    /\ ballots = <<>>
    /\ userBallots = [a \in Addr |-> <<>>]
    /\ last = NoReceipt
    /\ events = <<>>

OrderDelegate == ToBallot /\ delegate(OrderA, OrderB)
OrderVote == ToBallot /\ \E p \in 0 .. NumProposals - 1 : vote(OrderB, p)

OrderNext ==
    \/ OrderDelegate
    \/ OrderVote
    \/ SelectCall
    \/ NextTransaction

OrderSpec == OrderInit /\ [][OrderNext]_vars

\* ---- the catalogue while a ballot is in use ------------------------------------
\* The factory creates up to MaxBallots ballots with delegation allowed; the
\* first of them takes every operation from two accounts, which are also the
\* only addresses named as admins, voters and delegates.
CatalogueCounts == {0, NumProposals, MaxProposals + 1}
CatalogueCapacities == {1, 2}
CatalogueLists == UNION {[1 .. n -> Creators] : n \in 0 .. MaxBatch}

CatalogueInit == FactoryInit

CatalogueCreateBallot ==
    /\ Ready
    /\ \E s \in Creators, n \in CatalogueCounts, d \in Descriptions,
          mv \in CatalogueCapacities :
          /\ createBallotCheck(n) = "ok" => Len(ballots) < MaxBallots
          /\ createBallot(s, n, d, mv, TRUE)

CatalogueSelect ==
    /\ Ready
    /\ self = NoBallot
    /\ ballots # <<>>
    /\ Select(ballots[1].ballotAddress)

CatalogueAddAdmin == ToBallot /\ \E s \in Creators, a \in Creators : addAdmin(s, a)
CatalogueWhitelistVoter == ToBallot /\ \E s \in Creators, v \in Creators : whitelistVoter(s, v)
CatalogueWhitelistVoters ==
    ToBallot /\ \E s \in Creators, l \in CatalogueLists : whitelistVoters(s, l)

CatalogueNext ==
    \/ CatalogueCreateBallot
    \/ CatalogueSelect
    \/ CatalogueAddAdmin
    \/ BallotRemoveAdmin
    \/ CatalogueWhitelistVoter
    \/ CatalogueWhitelistVoters
    \/ BallotDelegate
    \/ BallotVote
    \/ BallotSetVotingState
    \/ NextTransaction

CatalogueSpec == CatalogueInit /\ [][CatalogueNext]_vars

\* ==== properties ===========================================================
RECURSIVE Sum(_, _)
Sum(f, S) == IF S = {} THEN 0
             ELSE LET x == CHOOSE y \in S : TRUE IN f[x] + Sum(f, S \ {x})

VoteCounts == [i \in DOMAIN proposals |-> proposals[i].voteCount]

\* weight still held by a whitelisted voter that has neither voted nor delegated
UnusedWeight ==
    [a \in Addr |-> IF voters[a].isWhitelisted /\ ~voters[a].hasVoted
                    THEN voters[a].weight ELSE 0]

\* the voters reached from v by following one or more set delegate pointers
RECURSIVE Delegates(_, _)
Delegates(v, n) ==
    IF voters[v].delegate = Zero \/ n = 0 THEN {}
    ELSE {voters[v].delegate} \cup Delegates(voters[v].delegate, n - 1)

\* the end of the chain of set delegate pointers that starts at v
RECURSIVE Terminal(_, _)
Terminal(v, n) ==
    IF voters[v].delegate = Zero \/ n = 0 THEN v
    ELSE Terminal(voters[v].delegate, n - 1)

Hops == Cardinality(Addr)

\* C1: conservation -- the proposals' voteCounts plus the weights of the
\* whitelisted voters that have not voted or delegated sum to totalVoters.
C1_Conservation ==
    Sum(VoteCounts, DOMAIN proposals) + Sum(UnusedWeight, Addr) = totalVoters

\* a chain was merged into a voter that then voted, one voter still holds its weight
C1_Witness ==
    /\ \E v \in Addr : voters[v].delegate # Zero
    /\ \E i \in DOMAIN proposals : proposals[i].voteCount >= 2
    /\ \E u \in Addr : voters[u].isWhitelisted /\ ~voters[u].hasVoted
    /\ votesCount >= 1

\* C2: the delegation relation is acyclic -- following delegate pointers from
\* any voter never returns to that voter.
C2_Acyclic == \A v \in Addr : v \notin Delegates(v, Hops)

\* a loop-closing delegate was attempted on a chain of two edges
C2_Witness ==
    /\ last.op = "delegate"
    /\ last.reason = "Loop in delegation detected"
    /\ \E a, b \in Addr : a # b /\ voters[a].delegate = b /\ voters[b].delegate # Zero

\* C4: totalVoters never exceeds maxVotes, whatever mix of whitelistVoter and
\* whitelistVoters calls was made, maxVotes = 0 included.
C4_Capacity == totalVoters <= maxVotes

\* a batch stopped at a capacity the single calls had partly used
C4_Witness ==
    /\ last.op = "whitelistVoters"
    /\ last.reason = "ok"
    /\ totalVoters = maxVotes
    /\ maxVotes = MaxCapacity
    /\ Len(events) = 1

\* C3 as stated: hasVoted, once true, stays true, and every later vote or
\* delegate by that voter is rejected as "Already voted".
C3_AlwaysAlreadyVoted ==
    [][/\ \A s \in Addr : voters[s].hasVoted => voters'[s].hasVoted
       /\ last'.op = "vote" =>
             \A s \in Accounts, q \in 0 .. NumProposals :
                 (voters[s].hasVoted /\ vote(s, q)) => last'.reason = "Already voted"
       /\ last'.op = "delegate" =>
             \A s \in Accounts, t \in Addr :
                 (voters[s].hasVoted /\ delegate(s, t)) => last'.reason = "Already voted"
      ]_vars

\* C3 (amended): one vote per voter -- hasVoted, once true, stays true, and
\* every later vote or delegate by that voter is rejected; the reason is
\* "Already voted" whenever the guards the code tests first pass (voting
\* open and, for delegate, delegation allowed).
C3_OneVotePerVoter ==
    [][/\ \A s \in Addr : voters[s].hasVoted => voters'[s].hasVoted
       /\ last'.op = "vote" =>
             \A s \in Accounts, q \in 0 .. NumProposals :
                 (voters[s].hasVoted /\ vote(s, q)) =>
                     /\ last'.reason # "ok"
                     /\ votingOpen => last'.reason = "Already voted"
       /\ last'.op = "delegate" =>
             \A s \in Accounts, t \in Addr :
                 (voters[s].hasVoted /\ delegate(s, t)) =>
                     /\ last'.reason # "ok"
                     /\ (votingOpen /\ allowDelegation) => last'.reason = "Already voted"
      ]_vars

\* a voter that cast a vote tried to delegate afterwards
C3_Witness ==
    /\ last.op = "delegate"
    /\ last.reason = "Already voted"
    /\ votesCount >= 1
    /\ \A v \in Addr : voters[v].delegate = Zero

\* the requires of delegate that precede the forwarding loop
DelegateGuards(s, t) ==
    /\ votingOpen
    /\ allowDelegation
    /\ voters[s].isWhitelisted
    /\ ~voters[s].hasVoted
    /\ t # s
    /\ voters[t].isWhitelisted

\* C5: a delegate call whose forwarding walk from _to reaches the caller is
\* rejected as a delegation loop and leaves every voter record, every
\* voteCount and votesCount as they were.
C5_LoopRejected ==
    [][\A s \in Accounts, t \in Addr :
          (last'.op = "delegate" /\ DelegateGuards(s, t) /\ s \in Delegates(t, Hops)
             /\ delegate(s, t)) =>
              /\ last'.reason = "Loop in delegation detected"
              /\ voters' = voters
              /\ proposals' = proposals
              /\ votesCount' = votesCount
      ]_vars

\* a -> b -> c, then c's delegate into the chain was rejected
C5_Witness ==
    /\ last.op = "delegate"
    /\ last.reason = "Loop in delegation detected"
    /\ \E a, b, c \in Accounts :
          /\ a # b /\ b # c /\ a # c
          /\ voters[a].delegate = b
          /\ voters[b].delegate = c
          /\ ~voters[c].hasVoted
          /\ voters[c].weight = 3

\* the voters whose chain of delegate pointers ends at s (s itself included)
ChainInto(s) == {v \in Addr : Terminal(v, Hops) = s}

\* C6: chain propagation -- when the end of a delegation chain votes for p,
\* p's voteCount grows by the number of voters of the chain, all of them
\* have hasVoted, and votesCount grows by one.
C6_ChainPropagation ==
    [][\A s \in Accounts, q \in DOMAIN proposals :
          (last'.op = "vote" /\ last'.reason = "ok" /\ vote(s, q)) =>
              /\ proposals'[q].voteCount = proposals[q].voteCount + Cardinality(ChainInto(s))
              /\ \A v \in ChainInto(s) : voters'[v].hasVoted
              /\ votesCount' = votesCount + 1
      ]_vars

\* a -> b -> c and c has just voted with the weight of all three
C6_Witness ==
    /\ last.op = "vote"
    /\ last.reason = "ok"
    /\ votesCount = 1
    /\ \E a, b, c \in Accounts :
          /\ voters[a].delegate = b
          /\ voters[b].delegate = c
          /\ voters[c].delegate = Zero
          /\ voters[c].hasVoted
          /\ proposals[voters[c].votedProposalId].voteCount = 3
          /\ events = <<[name |-> "VoteCast", a |-> c, b |-> voters[c].votedProposalId]>>

\* C7: weight transfer of a successful delegate with resolved terminal r --
\* if r has voted, the caller's weight goes to r's proposal and no weight
\* changes; otherwise it goes to r.weight and no voteCount changes; votesCount
\* and the caller's weight stay.
C7_WeightTransfer ==
    [][\A s \in Accounts, t \in Addr :
          (last'.op = "delegate" /\ last'.reason = "ok" /\ delegate(s, t)) =>
              LET r == Terminal(t, Hops) IN
              /\ IF voters[r].hasVoted
                 THEN /\ proposals' = [proposals EXCEPT
                             ![voters[r].votedProposalId].voteCount = @ + voters[s].weight]
                      /\ \A v \in Addr : voters'[v].weight = voters[v].weight
                 ELSE /\ voters'[r].weight = voters[r].weight + voters[s].weight
                      /\ \A v \in Addr \ {r} : voters'[v].weight = voters[v].weight
                      /\ proposals' = proposals
              /\ votesCount' = votesCount
              /\ voters'[s].weight = voters[s].weight
      ]_vars

\* a delegation into a voter that had already voted went to its proposal
C7_Witness ==
    /\ last.op = "delegate"
    /\ last.reason = "ok"
    /\ \E s, r \in Accounts :
          /\ events = <<[name |-> "DelegatedVote", a |-> s, b |-> r]>>
          /\ voters[r].hasVoted
          /\ voters[r].delegate = Zero
          /\ voters[r].weight = 1
          /\ proposals[voters[r].votedProposalId].voteCount = 2
          /\ votesCount = 1

\* C8: after a successful delegate the caller's delegate is the end of the
\* chain that started at _to, a voter with no delegate of its own; it is _to
\* only when _to had no delegate.
C8_DelegateIsTerminal ==
    [][\A s \in Accounts, t \in Addr :
          (last'.op = "delegate" /\ last'.reason = "ok" /\ delegate(s, t)) =>
              /\ voters'[s].delegate = Terminal(t, Hops)
              /\ voters'[voters'[s].delegate].delegate = Zero
              /\ voters'[s].delegate = t => voters[t].delegate = Zero
      ]_vars

\* c has just delegated and ended on b, the delegate of a
C8_Witness ==
    /\ last.op = "delegate"
    /\ last.reason = "ok"
    /\ \E a, b, c \in Accounts :
          /\ a # c
          /\ events = <<[name |-> "DelegatedVote", a |-> c, b |-> b]>>
          /\ voters[a].delegate = b
          /\ voters[c].delegate = b
          /\ voters[b].delegate = Zero
          /\ voters[b].weight = 3

\* the lowest index whose voteCount is the maximum of the tally
LowestMaxIndex ==
    CHOOSE i \in DOMAIN proposals :
        /\ \A j \in DOMAIN proposals : proposals[j].voteCount <= proposals[i].voteCount
        /\ \A j \in DOMAIN proposals : j < i => proposals[j].voteCount < proposals[i].voteCount

\* C9: winningProposal() returns the lowest index holding the maximum
\* voteCount (0 for an all-zero tally) and changes no state.
C9_WinningProposal ==
    [][WinningProposalCall =>
          /\ last'.ret = LowestMaxIndex
          /\ (\A i \in DOMAIN proposals : proposals[i].voteCount = 0) => last'.ret = 0
          /\ UNCHANGED storage
      ]_vars

\* the tally [1, 2, 2] was queried and gave 1
C9_Witness ==
    /\ last.op = "winningProposal"
    /\ DOMAIN proposals = 0 .. 2
    /\ proposals[0].voteCount = 1
    /\ proposals[1].voteCount = 2
    /\ proposals[2].voteCount = 2
    /\ last.ret = 1

\* the condition under which the claim says vote succeeds
VoteAllowed(s, q) ==
    /\ votingOpen
    /\ voters[s].isWhitelisted
    /\ ~voters[s].hasVoted
    /\ q < ProposalsLength

\* C10: vote succeeds exactly when voting is open, the caller is whitelisted
\* and has not voted, and the proposal id is in range; otherwise it is
\* rejected as voting closed, not whitelisted, already voted or invalid.
C10_VoteGuard ==
    [][\A s \in Accounts, q \in 0 .. NumProposals :
          (last'.op = "vote" /\ vote(s, q)) =>
              /\ (last'.reason = "ok") <=> VoteAllowed(s, q)
              /\ last'.reason = "ok" => (voters'[s].hasVoted /\ voters'[s].votedProposalId = q)
              /\ last'.reason # "ok" =>
                    /\ last'.reason \in {"Voting is not open", "Not whitelisted to vote",
                                         "Already voted", "Invalid proposal"}
                    /\ UNCHANGED storage
      ]_vars

\* after a vote was cast, a vote for a proposal id out of range was rejected
C10_Witness ==
    /\ last.op = "vote"
    /\ last.reason = "Invalid proposal"
    /\ votesCount >= 1

\* the condition under which the claim says delegate succeeds
DelegateAllowed(s, t) ==
    /\ DelegateGuards(s, t)
    /\ s \notin Delegates(t, Hops)

\* C11: delegate succeeds exactly when voting is open, delegation is allowed,
\* the caller is whitelisted and has not voted, _to is another, whitelisted
\* address, and the chain of delegate pointers from _to does not reach the
\* caller; in every other case it is rejected and writes nothing.
C11_DelegateGuard ==
    [][\A s \in Accounts, t \in Addr :
          (last'.op = "delegate" /\ delegate(s, t)) =>
              /\ (last'.reason = "ok") <=> DelegateAllowed(s, t)
              /\ last'.reason = "ok" => (voters'[s].hasVoted /\ events' # <<>>)
              /\ last'.reason # "ok" =>
                    /\ last'.reason \in {"Voting is not open",
                                         "Delegation not allowed in this ballot",
                                         "Not whitelisted to vote", "Already voted",
                                         "Cannot delegate to yourself",
                                         "Delegate not whitelisted",
                                         "Loop in delegation detected"}
                    /\ UNCHANGED storage
      ]_vars

\* with one delegation in place, a delegate to an address that is not
\* whitelisted was rejected
C11_Witness ==
    /\ last.op = "delegate"
    /\ last.reason = "Delegate not whitelisted"
    /\ \E a \in Accounts : voters[a].delegate # Zero
    /\ \E t \in Addr : ~voters[t].isWhitelisted

\* C12: a successful vote(p) sets the caller's hasVoted and votedProposalId,
\* adds the caller's weight (1 plus the weight delegated into the caller) to
\* proposals[p].voteCount, adds 1 to votesCount, and leaves every other
\* proposal, every other voter record, totalVoters and votingOpen unchanged.
C12_VoteEffect ==
    [][\A s \in Accounts, q \in DOMAIN proposals :
          (last'.op = "vote" /\ last'.reason = "ok" /\ vote(s, q)) =>
              /\ voters'[s] = [voters[s] EXCEPT !.hasVoted = TRUE, !.votedProposalId = q]
              /\ voters[s].weight = 1 + Cardinality(ChainInto(s) \ {s})
              /\ proposals'[q].voteCount = proposals[q].voteCount + voters[s].weight
              /\ proposals'[q].name = proposals[q].name
              /\ votesCount' = votesCount + 1
              /\ \A i \in DOMAIN proposals \ {q} : proposals'[i] = proposals[i]
              /\ DOMAIN proposals' = DOMAIN proposals
              /\ \A v \in Addr \ {s} : voters'[v] = voters[v]
              /\ totalVoters' = totalVoters
              /\ votingOpen' = votingOpen
      ]_vars

\* a voter holding one delegated vote has voted for proposal 1 while another
\* proposal already had a vote
C12_Witness ==
    /\ last.op = "vote"
    /\ last.reason = "ok"
    /\ votesCount = 2
    /\ proposals[0].voteCount = 1
    /\ proposals[1].voteCount = 2
    /\ \E s \in Accounts :
          /\ events = <<[name |-> "VoteCast", a |-> s, b |-> 1]>>
          /\ voters[s].weight = 2

\* C13: whitelistVoter by an admin is rejected when the target is already
\* whitelisted or totalVoters = maxVotes, and totalVoters keeps its value;
\* otherwise it sets isWhitelisted, weight = 1 and adds 1 to totalVoters.
C13_WhitelistVoter ==
    [][\A s \in GatedSenders, v \in Addr :
          (last'.op = "whitelistVoter" /\ onlyAdmin(s) /\ whitelistVoter(s, v)) =>
              IF voters[v].isWhitelisted \/ totalVoters = maxVotes
              THEN /\ last'.reason \in {"Voter already whitelisted",
                                         "Maximum number of voters reached"}
                   /\ totalVoters = maxVotes /\ ~voters[v].isWhitelisted
                         => last'.reason = "Maximum number of voters reached"
                   /\ totalVoters' = totalVoters
                   /\ UNCHANGED storage
              ELSE /\ last'.reason = "ok"
                   /\ voters'[v] = [voters[v] EXCEPT !.isWhitelisted = TRUE, !.weight = 1]
                   /\ totalVoters' = totalVoters + 1
      ]_vars

\* on a ballot with maxVotes = 2, a third whitelistVoter after two
\* successful ones was rejected and totalVoters is still 2
C13_Witness ==
    /\ last.op = "whitelistVoter"
    /\ last.reason = "Maximum number of voters reached"
    /\ maxVotes = 2
    /\ totalVoters = 2
    /\ Cardinality({v \in Addr : voters[v].isWhitelisted}) = 2

\* the positions of a list that hold the first occurrence of an address that
\* is not whitelisted yet
FirstNew(list) ==
    {i \in 1 .. Len(list) :
        /\ ~voters[list[i]].isWhitelisted
        /\ \A j \in 1 .. i - 1 : list[j] # list[i]}

Min(a, b) == IF a < b THEN a ELSE b

\* the first min(d, maxVotes - totalVoters) of those positions
Taken(list) ==
    {i \in FirstNew(list) :
        Cardinality({j \in FirstNew(list) : j <= i}) <= maxVotes - totalVoters}

\* C14: on every whitelist a ballot can hold, for every list of up to
\* MaxBatch entries, whitelistVoters by an admin never fails; of the d distinct entries
\* not yet whitelisted, exactly the first min(d, maxVotes - totalVoters), in
\* list order, become whitelisted with weight 1, totalVoters grows by that
\* number, and entries already whitelisted or repeated are skipped.
C14_WhitelistVoters ==
    [][\A s \in GatedSenders, l \in Lists :
          (last'.op = "whitelistVoters" /\ onlyAdmin(s) /\ whitelistVoters(s, l)) =>
              LET k == Min(Cardinality(FirstNew(l)), maxVotes - totalVoters)
                  new == {l[i] : i \in Taken(l)}
              IN
              /\ last'.reason = "ok"
              /\ Cardinality(new) = k
              /\ voters' = [a \in Addr |->
                               IF a \in new
                               THEN [voters[a] EXCEPT !.isWhitelisted = TRUE, !.weight = 1]
                               ELSE voters[a]]
              /\ totalVoters' = totalVoters + k
              /\ Len(events') = k
              /\ \A n \in 1 .. k :
                    \E i \in Taken(l) :
                        /\ Cardinality({j \in Taken(l) : j <= i}) = n
                        /\ events'[n] = [name |-> "VoterWhitelisted", a |-> l[i], b |-> 0]
              /\ UNCHANGED <<proposals, owner, admins, votesCount, votingOpen,
                             allowDelegation, maxVotes>>
      ]_vars

\* a batch whitelisted two voters of a ballot that already had one, up to
\* its capacity of three
C14_Witness ==
    /\ last.op = "whitelistVoters"
    /\ last.reason = "ok"
    /\ Len(events) = 2
    /\ events[1].a # events[2].a
    /\ totalVoters = 3
    /\ maxVotes = 3

\* C15: whitelistVoter, whitelistVoters and setVotingState are rejected as
\* unauthorized, writing nothing, when the caller is neither the owner nor in
\* admins; the authorization check passes for the owner and for every
\* account currently in admins.
C15_AdminGating ==
    [][/\ last'.op = "whitelistVoter" =>
             \A s \in GatedSenders, v \in Addr :
                 whitelistVoter(s, v) =>
                     IF s = owner \/ admins[s]
                     THEN last'.reason # "Only admin can call this function"
                     ELSE /\ last'.reason = "Only admin can call this function"
                          /\ UNCHANGED storage
       /\ last'.op = "whitelistVoters" =>
             \A s \in GatedSenders :
                 IF s = owner \/ admins[s]
                 THEN \/ last'.reason = "ok"
                      \/ \A l \in Lists : ~whitelistVoters(s, l)
                 ELSE \/ /\ last'.reason = "Only admin can call this function"
                         /\ UNCHANGED storage
                      \/ \A l \in Lists : ~whitelistVoters(s, l)
       /\ last'.op = "setVotingState" =>
             \A s \in GatedSenders, b \in BOOLEAN :
                 setVotingState(s, b) =>
                     IF s = owner \/ admins[s]
                     THEN last'.reason = "ok" /\ votingOpen' = b
                     ELSE /\ last'.reason = "Only admin can call this function"
                          /\ UNCHANGED storage
      ]_vars

\* while another account is an admin, a whitelistVoter call was rejected as
\* unauthorized
C15_Witness ==
    /\ last.op = "whitelistVoter"
    /\ last.reason = "Only admin can call this function"
    /\ \E a \in Accounts \ {owner} : admins[a]
    /\ \E a \in Accounts \ {owner} : ~admins[a]

\* C16: setVotingState by an account that is neither the owner nor an admin
\* is rejected with the reason "Only owner can call this function".
C16_OwnerReason ==
    [][last'.op = "setVotingState" =>
          \A s \in GatedSenders, b \in BOOLEAN :
              (~(s = owner \/ admins[s]) /\ setVotingState(s, b)) =>
                  last'.reason = "Only owner can call this function"
      ]_vars

\* C17: while voting is closed every vote is rejected as "Voting is not
\* open"; votingOpen changes only by a successful setVotingState; once open
\* again a whitelisted voter that has not voted can vote; and in every state
\* a setVotingState by the owner, to closed or to open, succeeds.
C17_Reversible ==
    [][/\ votingOpen' # votingOpen => (last'.op = "setVotingState" /\ last'.reason = "ok")
       /\ last'.op = "vote" =>
             \A s \in Accounts, q \in 0 .. NumProposals :
                 vote(s, q) =>
                     /\ ~votingOpen => (last'.reason = "Voting is not open" /\ UNCHANGED storage)
                     /\ (votingOpen /\ voters[s].isWhitelisted /\ ~voters[s].hasVoted
                            /\ q \in DOMAIN proposals) => last'.reason = "ok"
       /\ onlyAdmin(owner)
       /\ last'.op = "setVotingState" =>
             \A s \in GatedSenders, b \in BOOLEAN :
                 (onlyAdmin(s) /\ setVotingState(s, b)) =>
                     /\ last'.reason = "ok"
                     /\ votingOpen' = b
      ]_vars

\* on a closed ballot that had taken a vote before, a whitelisted voter that
\* has not voted had its vote rejected
C17_Witness ==
    /\ last.op = "vote"
    /\ last.reason = "Voting is not open"
    /\ ~votingOpen
    /\ votesCount >= 1
    /\ \E v \in Accounts : voters[v].isWhitelisted /\ ~voters[v].hasVoted

\* C18: the owner is the account given at construction, is in admins and
\* isAdmin(owner) holds in every state; no removeAdmin naming the owner
\* succeeds.
C18_OwnerStaysAdmin ==
    /\ owner = Owner
    /\ admins[owner]
    /\ isAdmin(owner)
    /\ (last.op = "removeAdmin" /\ last.reason = "ok") =>
          events # <<[name |-> "AdminRemoved", a |-> owner, b |-> 0]>>

\* the removal of the owner was rejected while another admin existed
C18_Witness ==
    /\ last.op = "removeAdmin"
    /\ last.reason = "Cannot remove owner from admin role"
    /\ \E a \in Accounts \ {owner} : admins[a]

\* C19: addAdmin succeeds iff the caller is the owner and the target is not
\* in admins; removeAdmin succeeds iff the caller is the owner and the target
\* is another account that is in admins; another caller is told it is not the
\* owner whatever the target; admins changes only by such a successful call.
C19_OwnerOnlyAdmins ==
    [][/\ admins' # admins =>
             (last'.op \in {"addAdmin", "removeAdmin"} /\ last'.reason = "ok")
       /\ last'.op = "addAdmin" =>
             \A s \in GatedSenders, a \in AdminTargets :
                 addAdmin(s, a) =>
                     /\ (last'.reason = "ok") <=> (s = owner /\ ~admins[a])
                     /\ s # owner => (last'.reason = "Only owner can add admins"
                                       /\ UNCHANGED storage)
                     /\ last'.reason = "ok" => admins' = [admins EXCEPT ![a] = TRUE]
       /\ last'.op = "removeAdmin" =>
             \A s \in GatedSenders, a \in AdminTargets :
                 removeAdmin(s, a) =>
                     /\ (last'.reason = "ok") <=> (s = owner /\ a # owner /\ admins[a])
                     /\ s # owner => (last'.reason = "Only owner can remove admins"
                                       /\ UNCHANGED storage)
                     /\ last'.reason = "ok" => admins' = [admins EXCEPT ![a] = FALSE]
      ]_vars

\* an addAdmin by a non-owner was rejected as unauthorized while every
\* possible target was already an admin
C19_Witness ==
    /\ last.op = "addAdmin"
    /\ last.reason = "Only owner can add admins"
    /\ \A a \in AdminTargets : admins[a]

\* C20: every rejected call -- of addAdmin, removeAdmin, whitelistVoter,
\* whitelistVoters (by a non-admin), delegate, vote, setVotingState or
\* createBallot -- leaves the storage of the ballot it was sent to, of every
\* other ballot and of the registry as it was and logs nothing, so once its
\* receipt is read the system is in the state it had before the call.
C20_AtomicFailure ==
    [][/\ last'.reason # "ok" =>
             /\ last'.op \in {"addAdmin", "removeAdmin", "whitelistVoter",
                               "whitelistVoters", "delegate", "vote",
                               "setVotingState", "createBallot"}
             /\ last'.op = "whitelistVoters" =>
                   last'.reason = "Only admin can call this function"
             /\ UNCHANGED <<storage, registry, deployed, self>>
             /\ events' = <<>>
       /\ (last.reason # "ok" /\ last' = NoReceipt) =>
             /\ UNCHANGED <<storage, registry, deployed, self>>
             /\ events' = <<>>
      ]_vars

\* with two ballots created, one voter whitelisted in one and a vote cast in
\* the other, a createBallot with six proposals was rejected
C20_Witness ==
    /\ last.op = "createBallot"
    /\ last.reason = "Maximum 5 proposals allowed"
    /\ Len(ballots) = 2
    /\ self # NoBallot
    /\ votesCount = 1
    /\ \E b \in DOMAIN deployed :
          deployed[b].totalVoters = 1 /\ deployed[b].votesCount = 0

\* C21: setVotingState(_isOpen) by the owner or an admin always succeeds,
\* leaves votingOpen = _isOpen, logs exactly one VotingStateChanged(_isOpen)
\* and changes nothing else; when votingOpen already is _isOpen the storage
\* stays as it is, so a second call with the same argument changes nothing.
C21_SetVotingState ==
    [][last'.op = "setVotingState" =>
          \A s \in GatedSenders, b \in BOOLEAN :
              (onlyAdmin(s) /\ setVotingState(s, b)) =>
                  /\ last'.reason = "ok"
                  /\ votingOpen' = b
                  /\ events' = <<[name |-> "VotingStateChanged", a |-> 0,
                                  b |-> IF b THEN 1 ELSE 0]>>
                  /\ UNCHANGED <<proposals, voters, owner, admins, totalVoters,
                                 votesCount, allowDelegation, maxVotes>>
                  /\ votingOpen = b => UNCHANGED storage
      ]_vars

\* a ballot that nobody had touched since its construction, hence open, was
\* set to open
C21_Witness ==
    /\ last.op = "setVotingState"
    /\ last.reason = "ok"
    /\ events = <<[name |-> "VotingStateChanged", a |-> 0, b |-> 1]>>
    /\ votingOpen
    /\ totalVoters = 0
    /\ \A a \in Accounts \ {owner} : ~admins[a]

\* C24: from one state to the next no proposal's voteCount, no voter's
\* weight, nor totalVoters or votesCount decreases.
C24_Monotone ==
    [][/\ \A i \in DOMAIN proposals : proposals'[i].voteCount >= proposals[i].voteCount
       /\ \A v \in Addr : voters'[v].weight >= voters[v].weight
       /\ totalVoters' >= totalVoters
       /\ votesCount' >= votesCount
      ]_vars

\* every tally has grown: two voters delegated to a third, who voted
C24_Witness ==
    /\ totalVoters = 3
    /\ votesCount = 1
    /\ \E i \in DOMAIN proposals : proposals[i].voteCount = 3
    /\ \E v \in Accounts : voters[v].weight = 3
    /\ Cardinality({v \in Addr : voters[v].weight = 1 /\ voters[v].delegate # Zero}) = 2

\* C22: a ballot that exists has between 1 and 5 proposals and their number
\* never changes: the constructor accepts exactly the lists of 1 to 5 names,
\* and no later call adds or removes a proposal.
C22_ProposalCount ==
    [][/\ self' # NoBallot => (ProposalsLength' >= 1 /\ ProposalsLength' <= 5)
       /\ self # NoBallot =>
             /\ self' = self
             /\ DOMAIN proposals' = DOMAIN proposals
             /\ \A i \in DOMAIN proposals : proposals'[i].name = proposals[i].name
       /\ last'.op = "constructor" =>
             \A n \in 0 .. MaxProposals + 1, mv \in 0 .. MaxCapacity,
                ad \in BOOLEAN, o \in Addr :
                 deploy(n, mv, ad, o) =>
                     /\ (last'.reason = "ok") <=> (n >= 1 /\ n <= 5)
                     /\ last'.reason = "ok" => DOMAIN proposals' = 0 .. n - 1
                     /\ last'.reason # "ok" => (self' = NoBallot /\ UNCHANGED storage)
      ]_vars

\* a ballot of five proposals has taken a vote
C22_Witness ==
    /\ self # NoBallot
    /\ ProposalsLength = MaxProposals
    /\ last.op = "vote"
    /\ last.reason = "ok"
    /\ votesCount = 1

\* C23: a ballot just constructed is open, has totalVoters = 0 and
\* votesCount = 0, every proposal at voteCount 0, no voter whitelisted, the
\* _owner argument as owner and in admins, and allowDelegation and maxVotes as
\* given.
C23_Constructed ==
    [][last'.op = "constructor" =>
          \A n \in 0 .. MaxProposals + 1, mv \in 0 .. MaxCapacity,
             ad \in BOOLEAN, o \in Addr :
              (last'.reason = "ok" /\ deploy(n, mv, ad, o)) =>
                  /\ votingOpen'
                  /\ totalVoters' = 0
                  /\ votesCount' = 0
                  /\ DOMAIN proposals' = 0 .. n - 1
                  /\ \A i \in 0 .. n - 1 : proposals'[i] = [name |-> i, voteCount |-> 0]
                  /\ \A v \in Addr : voters'[v] = Voter
                  /\ \A v \in Addr : ~voters'[v].isWhitelisted
                  /\ owner' = o
                  /\ admins'[o]
                  /\ allowDelegation' = ad
                  /\ maxVotes' = mv
      ]_vars

\* the ballot of the tests -- three proposals, delegation allowed -- has
\* just been constructed for an owner other than account 1
C23_Witness ==
    /\ last.op = "constructor"
    /\ last.reason = "ok"
    /\ self = BallotAddress(0)
    /\ ProposalsLength = 3
    /\ allowDelegation
    /\ maxVotes = MaxCapacity
    /\ owner = Owner + 1
    /\ admins = [a \in Addr |-> a = Owner + 1]

\* C25: a successful createBallot constructs a new ballot owned by the caller,
\* appends one and the same record -- the ballot's address, the description,
\* owner = caller, maxVotes, allowDelegation, proposalCount = the number of
\* names, isActive = true -- to the end of ballots and of userBallots[caller],
\* and returns the address stored in that record.
C25_CreateBallot ==
    [][(last'.op = "createBallot" /\ last'.reason = "ok") =>
          \A s \in Creators, n \in RegistryCounts, d \in RegistryDescriptions,
             mv \in RegistryCapacities, ad \in BOOLEAN :
              createBallot(s, n, d, mv, ad) =>
                  LET record == [ballotAddress |-> last'.ret, description |-> d,
                                 owner |-> s, maxVotes |-> mv, allowDelegation |-> ad,
                                 proposalCount |-> n, isActive |-> TRUE]
                  IN
                  /\ last'.ret # NoBallot
                  /\ last'.ret \notin DOMAIN deployed \cup {self}
                  /\ DOMAIN deployed' = DOMAIN deployed \cup {last'.ret}
                  /\ deployed'[last'.ret].owner = s
                  /\ deployed'[last'.ret].maxVotes = mv
                  /\ deployed'[last'.ret].allowDelegation = ad
                  /\ DOMAIN deployed'[last'.ret].proposals = 0 .. n - 1
                  /\ ballots' = Append(ballots, record)
                  /\ userBallots'[s] = Append(userBallots[s], record)
                  /\ \A a \in Addr \ {s} : userBallots'[a] = userBallots[a]
      ]_vars

\* the second account has just created the second ballot, after one of the
\* first account's
C25_Witness ==
    /\ last.op = "createBallot"
    /\ last.reason = "ok"
    /\ Len(ballots) = 2
    /\ ballots[1].owner = Owner
    /\ ballots[2].owner = Owner + 1
    /\ ballots[2].ballotAddress = last.ret
    /\ ballots[2].proposalCount = MaxProposals
    /\ ballots[2].description # ballots[1].description
    /\ userBallots[Owner + 1] = <<ballots[2]>>

\* C26: createBallot with no proposal name or with more than 5 is rejected,
\* with the reason of the factory's own require: no ballot is constructed,
\* ballots and every userBallots list stay as they were and no BallotCreated
\* event is logged.
C26_CreateBallotRejected ==
    [][last'.op = "createBallot" =>
          \A s \in Creators, n \in RegistryCounts, d \in RegistryDescriptions,
             mv \in RegistryCapacities, ad \in BOOLEAN :
              ((n = 0 \/ n > 5) /\ createBallot(s, n, d, mv, ad)) =>
                  /\ last'.reason = (IF n = 0 THEN "Must provide at least one proposal"
                                               ELSE "Maximum 5 proposals allowed")
                  /\ deployed' = deployed
                  /\ ballots' = ballots
                  /\ userBallots' = userBallots
                  /\ events' = <<>>
                  /\ UNCHANGED <<storage, self>>
      ]_vars

\* a list of six names has just been rejected by a factory holding a ballot
C26_Witness ==
    /\ last.op = "createBallot"
    /\ last.reason = "Maximum 5 proposals allowed"
    /\ Len(ballots) = 1
    /\ events = <<>>

\* the records of ballots whose owner is o, in the order of ballots
OwnedBy(o) == SelectSeq(getAllBallots, LAMBDA r : r.owner = o)

\* C27: for every address o, getUserBallots(o) is the subsequence of
\* getAllBallots() with owner o (empty when o created nothing), and the
\* lengths of the per-owner lists add up to the length of the global list.
C27_UserBallots ==
    /\ \A o \in Addr : getUserBallots(o) = OwnedBy(o)
    /\ \A o \in Addr : (\A i \in 1 .. Len(ballots) : ballots[i].owner # o)
                          => getUserBallots(o) = <<>>
    /\ Sum([o \in Addr |-> Len(getUserBallots(o))], Addr) = Len(getAllBallots)

\* both accounts own a ballot, and the lists differ
C27_Witness ==
    /\ Len(getAllBallots) = 2
    /\ Len(getUserBallots(Owner)) = 1
    /\ Len(getUserBallots(Owner + 1)) = 1
    /\ getAllBallots[1].owner = Owner + 1
    /\ getUserBallots(Owner) = <<getAllBallots[2]>>
    /\ getUserBallots(Owner + 2) = <<>>

\* the addresses of the Ballots that exist
Existing == DOMAIN deployed \cup ({self} \ {NoBallot})

\* C28: getActiveBallots() returns the records of getAllBallots() in the same
\* order: isActive of every record is true in every reachable state, also
\* after setVotingState(false) closed the voting of a ballot.
C28_ActiveBallots ==
    /\ getActiveBallots = getAllBallots
    /\ \A i \in 1 .. Len(ballots) : ballots[i].isActive

\* two ballots are registered and the voting of one has just been closed
C28_Witness ==
    /\ Len(getActiveBallots) = 2
    /\ last.op = "setVotingState"
    /\ last.reason = "ok"
    /\ ~votingOpen
    /\ \E b \in DOMAIN deployed : deployed[b].votingOpen

\* the operations of a Ballot that write its storage
BallotOps ==
    {"addAdmin", "removeAdmin", "whitelistVoter", "whitelistVoters", "delegate",
     "vote", "setVotingState"}

\* C29: getBallotStatus(index) of the factory fails with "Invalid ballot
\* index" exactly when index >= ballots.length; otherwise it returns isActive
\* of the record and the live status of the ballot: allowDelegation and
\* maxVotes as at creation, totalVoters raised by every successful whitelist
\* call on that ballot, votesCount by every successful vote, votingOpen as set
\* by the latest successful setVotingState, and unchanged by every other step.
C29_BallotStatus ==
    [][\A k \in 0 .. MaxBallots + 1 :
          IF k >= Len(ballots')
          THEN getBallotStatus(k)' = [reason |-> "Invalid ballot index"]
          ELSE IF k >= Len(ballots)
          THEN /\ last'.op = "createBallot"
               /\ last'.reason = "ok"
               /\ k = Len(ballots)
               /\ getBallotStatus(k)' =
                      [reason |-> "ok",
                       isActive |-> ballots'[k + 1].isActive,
                       totalVoters |-> 0,
                       votesCount |-> 0,
                       votingOpen |-> TRUE,
                       allowDelegation |-> ballots'[k + 1].allowDelegation,
                       maxVotes |-> ballots'[k + 1].maxVotes]
          ELSE LET before == getBallotStatus(k)
                   called == /\ ballots[k + 1].ballotAddress = self
                             /\ last'.reason = "ok"
               IN
               getBallotStatus(k)' =
                   [reason |-> "ok",
                    isActive |-> ballots'[k + 1].isActive,
                    totalVoters |-> before.totalVoters +
                        (IF called /\ last'.op \in {"whitelistVoter", "whitelistVoters"}
                         THEN Len(events') ELSE 0),
                    votesCount |-> before.votesCount +
                        (IF called /\ last'.op = "vote" THEN 1 ELSE 0),
                    votingOpen |-> (IF called /\ last'.op = "setVotingState"
                                    THEN events'[1].b = 1 ELSE before.votingOpen),
                    allowDelegation |-> ballots'[k + 1].allowDelegation,
                    maxVotes |-> ballots'[k + 1].maxVotes]
      ]_vars

\* the second ballot has a voter who voted and is closed, the first is
\* open without voters, and index 2 is invalid
C29_Witness ==
    /\ Len(ballots) = 2
    /\ getBallotStatus(1) = [reason |-> "ok", isActive |-> TRUE, totalVoters |-> 1,
                              votesCount |-> 1, votingOpen |-> FALSE,
                              allowDelegation |-> ballots[2].allowDelegation,
                              maxVotes |-> 1]
    /\ getBallotStatus(0).totalVoters = 0
    /\ getBallotStatus(0).votingOpen
    /\ getBallotStatus(2).reason = "Invalid ballot index"

\* C30: a step changes the storage of no Ballot other than the one a call is
\* addressed to, whether the call succeeds or is rejected; the calls of a
\* transaction stay with the ballot they are addressed to, and creating a
\* ballot or addressing another one changes no existing ballot.
C30_Independent ==
    [][/\ \A b \in Existing :
             (b # self \/ last'.op \notin BallotOps) => StorageOf(b)' = StorageOf(b)
       /\ last'.op \in BallotOps => self' = self
       /\ Existing \subseteq Existing'
      ]_vars

\* the same account is whitelisted and has voted in two ballots, its vote in
\* the second cast after the one in the first
C30_Witness ==
    /\ last.op = "vote"
    /\ last.reason = "ok"
    /\ voters[Owner + 1].hasVoted
    /\ votesCount = 1
    /\ \E b \in DOMAIN deployed :
          /\ deployed[b].voters[Owner + 1].hasVoted
          /\ deployed[b].votesCount = 1

\* the number of delegate pointers the forwarding loop of delegate(_to = to)
\* sent by sender follows: it stops on a voter without delegate, or on the
\* pointer that leads back to the sender; n caps the count
RECURSIVE Walked(_, _, _)
Walked(to, sender, n) ==
    IF voters[to].delegate = Zero \/ n = 0 THEN 0
    ELSE IF voters[to].delegate = sender THEN 1
    ELSE 1 + Walked(voters[to].delegate, sender, n - 1)

\* C32: the forwarding loop of delegate terminates -- in every reachable
\* state, for every caller and every target, it follows at most totalVoters
\* delegate pointers and ends on a voter without delegate or with the
\* rejection "Loop in delegation detected".
C32_WalkBounded ==
    \A s \in Accounts, t \in Addr :
        /\ Walked(t, s, Hops + 1) <= totalVoters
        /\ forward(t, s, Hops).reason \in {"ok", "Loop in delegation detected"}
        /\ forward(t, s, Hops).reason = "ok" => voters[forward(t, s, Hops).to].delegate = Zero

\* a walk of two pointers, the longest three voters allow, was rejected on
\* its second pointer
C32_Witness ==
    /\ totalVoters = 3
    /\ last.op = "delegate"
    /\ last.reason = "Loop in delegation detected"
    /\ \E s \in Accounts, t \in Addr :
          /\ Walked(t, s, Hops + 1) = 2
          /\ voters[voters[t].delegate].delegate = s
          /\ ~voters[s].hasVoted

\* v has cast a direct vote for p, as the voter record shows it: hasVoted
\* with no delegate and votedProposalId = p
DirectVote(v, p) ==
    /\ voters[v].hasVoted
    /\ voters[v].delegate = Zero
    /\ voters[v].votedProposalId = p

\* the whitelisted voters whose delegation chain ends at a direct vote for p
Attributed(p) ==
    {v \in Addr : voters[v].isWhitelisted /\ DirectVote(Terminal(v, Hops), p)}

\* C34: tally attribution -- the voteCount of every proposal p is the number
\* of whitelisted voters whose chain of delegate pointers ends at a voter
\* that cast a direct vote for p.
C34_TallyAttribution ==
    \A p \in DOMAIN proposals : proposals[p].voteCount = Cardinality(Attributed(p))

\* the attribution of C34 in the states where the zero address is not
\* whitelisted
C34_AttributionWithoutZero == ~voters[Zero].isWhitelisted => C34_TallyAttribution

\* a delegation to the whitelisted zero address went through, and a later
\* delegation to that delegator was counted for proposal 0, for which nobody
\* voted
C34_Witness ==
    /\ votesCount = 0
    /\ proposals[0].voteCount = 1
    /\ last.op = "delegate"
    /\ last.reason = "ok"
    /\ \E a, b \in Accounts :
          /\ voters[a].hasVoted
          /\ voters[a].delegate = Zero
          /\ voters[b].delegate = a
          /\ voters[Zero].weight = 2

\* the voters that cast a direct vote, as the records show it
DirectVoters == {v \in Addr : voters[v].hasVoted /\ voters[v].delegate = Zero}

\* C35: votesCount is the number of voters with hasVoted and no delegate;
\* delegate never changes votesCount, votesCount <= totalVoters, and
\* votesCount plus the number of voters with a delegate is the number of
\* voters with hasVoted.
C35_VotesCount ==
    [][/\ votesCount' = Cardinality(DirectVoters')
       /\ votesCount' <= totalVoters'
       /\ votesCount' + Cardinality({v \in Addr : voters'[v].delegate # Zero})
             = Cardinality({v \in Addr : voters'[v].hasVoted})
       /\ last'.op = "delegate" => votesCount' = votesCount
      ]_vars

\* the count of C35 in the states where the zero address is not whitelisted
C35_VotesCountWithoutZero ==
    ~voters[Zero].isWhitelisted =>
        /\ votesCount = Cardinality(DirectVoters)
        /\ votesCount + Cardinality({v \in Addr : voters[v].delegate # Zero})
              = Cardinality({v \in Addr : voters[v].hasVoted})

\* a voter delegated to the whitelisted zero address: hasVoted without a
\* delegate and without a vote counted
C35_Witness ==
    /\ votesCount = 0
    /\ last.op = "delegate"
    /\ last.reason = "ok"
    /\ events = <<[name |-> "DelegatedVote", a |-> Owner, b |-> Zero]>>
    /\ voters[Owner].hasVoted
    /\ voters[Owner].delegate = Zero
    /\ \A i \in DOMAIN proposals : proposals[i].voteCount = 0

\* C36: totalVoters is the number of voters with isWhitelisted; a
\* whitelisted voter has weight >= 1 and any other voter weight 0; no step
\* takes isWhitelisted from true to false.
C36_Whitelisted ==
    [][/\ totalVoters = Cardinality({v \in Addr : voters[v].isWhitelisted})
       /\ totalVoters' = Cardinality({v \in Addr : voters'[v].isWhitelisted})
       /\ \A v \in Addr :
             /\ voters[v].isWhitelisted => voters[v].weight >= 1
             /\ ~voters[v].isWhitelisted => voters[v].weight = 0
             /\ voters'[v].isWhitelisted => voters'[v].weight >= 1
             /\ ~voters'[v].isWhitelisted => voters'[v].weight = 0
             /\ voters[v].isWhitelisted => voters'[v].isWhitelisted
      ]_vars

\* three voters are whitelisted, one of them the zero address, one holds the
\* weight of two, the fourth address holds none, and calls went on
C36_Witness ==
    /\ totalVoters = 3
    /\ voters[Zero].isWhitelisted
    /\ \E v \in Accounts : voters[v].weight = 2 /\ ~voters[v].hasVoted
    /\ \E v \in Accounts : ~voters[v].isWhitelisted /\ voters[v].weight = 0
    /\ last.op = "vote"
    /\ last.reason = "Not whitelisted to vote"

\* C37: voter records are well formed -- hasVoted implies isWhitelisted; a
\* voter with a delegate has hasVoted, no recorded vote of its own and never
\* casts one; its delegate is whitelisted and another address; a delegate,
\* once set, never changes.
C37_VoterWellFormed ==
    [][/\ \A v \in Addr :
             /\ voters[v].hasVoted => voters[v].isWhitelisted
             /\ voters'[v].hasVoted => voters'[v].isWhitelisted
             /\ voters'[v].delegate # Zero =>
                   /\ voters'[v].hasVoted
                   /\ voters'[v].votedProposalId = 0
                   /\ voters'[voters'[v].delegate].isWhitelisted
                   /\ voters'[v].delegate # v
             /\ voters[v].delegate # Zero => voters'[v].delegate = voters[v].delegate
       /\ (last'.op = "vote" /\ last'.reason = "ok") =>
             /\ voters[events'[1].a].delegate = Zero
             /\ voters'[events'[1].a].delegate = Zero
      ]_vars

\* a voter with a delegate tried to vote for proposal 1 and to delegate
\* again, and its record is as the first delegation left it
C37_Witness ==
    /\ last.op = "delegate"
    /\ last.reason = "Already voted"
    /\ votesCount = 1
    /\ \E v, w \in Accounts :
          /\ v # w
          /\ voters[v].delegate = w
          /\ voters[v].votedProposalId = 0
          /\ voters[w].hasVoted
          /\ voters[w].votedProposalId = 1
          /\ proposals[1].voteCount = 2

\* the fields of the voter records that record a vote or a delegation
Ballots == [v \in Addr |-> <<voters[v].hasVoted, voters[v].votedProposalId, voters[v].delegate>>]

\* C38: while votingOpen is false no step changes a voteCount, votesCount,
\* a voter's hasVoted, votedProposalId or delegate, or the value of
\* winningProposal(); whitelistVoter by an admin and addAdmin and removeAdmin
\* by the owner still succeed under their own conditions.
C38_FrozenWhileClosed ==
    [][~votingOpen =>
          /\ VoteCounts' = VoteCounts
          /\ votesCount' = votesCount
          /\ Ballots' = Ballots
          /\ winningProposal' = winningProposal
          /\ last'.op \in {"vote", "delegate"} => last'.reason = "Voting is not open"
          /\ last'.op = "whitelistVoter" =>
                \A s \in GatedSenders, v \in Addr :
                    whitelistVoter(s, v) =>
                        ((last'.reason = "ok") <=>
                            (isAdmin(s) /\ ~voters[v].isWhitelisted /\ totalVoters < maxVotes))
          /\ last'.op = "addAdmin" =>
                \A s \in GatedSenders, a \in AdminTargets :
                    addAdmin(s, a) => ((last'.reason = "ok") <=> (s = owner /\ ~admins[a]))
          /\ last'.op = "removeAdmin" =>
                \A s \in GatedSenders, a \in AdminTargets :
                    removeAdmin(s, a) =>
                        ((last'.reason = "ok") <=> (s = owner /\ a # owner /\ admins[a]))
      ]_vars

\* on a closed ballot holding a vote, a voter was whitelisted after an admin
\* had been added
C38_Witness ==
    /\ ~votingOpen
    /\ votesCount = 1
    /\ winningProposal = 1
    /\ last.op = "whitelistVoter"
    /\ last.reason = "ok"
    /\ totalVoters = 2
    /\ admins[Owner + 1]

\* C40: the DelegatedVote event of a successful delegate(_to) carries the
\* caller as from and as to the end of the chain of delegate pointers from
\* _to, which is the caller's delegate in the resulting state and differs
\* from _to whenever _to had a delegate.
C40_DelegatedVoteEvent ==
    [][(last'.op = "delegate" /\ last'.reason = "ok") =>
          \A s \in Accounts, t \in Addr :
              delegate(s, t) =>
                  /\ events' = <<[name |-> "DelegatedVote", a |-> s, b |-> Terminal(t, Hops)]>>
                  /\ events'[1].b = voters'[s].delegate
                  /\ voters[t].delegate # Zero => events'[1].b # t
      ]_vars

\* the third voter delegated into a chain of two and the event names the
\* chain's end, which had voted
C40_Witness ==
    /\ last.op = "delegate"
    /\ last.reason = "ok"
    /\ \E a, b, c \in Accounts :
          /\ a # c
          /\ events = <<[name |-> "DelegatedVote", a |-> c, b |-> b]>>
          /\ voters[a].delegate = b
          /\ voters[c].delegate = b
          /\ voters[b].hasVoted
          /\ voters[b].weight = 2
          /\ proposals[voters[b].votedProposalId].voteCount = 3

\* both calls of C39 have been made on the ballot with voter records vs
OrderDone(vs) == vs[OrderA].hasVoted /\ vs[OrderB].hasVoted

\* C39: delegate(OrderA -> OrderB) and vote(OrderB, p) commute -- from a
\* state where both are whitelisted and have not voted, voting is open and
\* delegation allowed, each call succeeds whether it comes first or second,
\* and two ballots that took both calls with the same p, in whichever order,
\* agree on every voteCount, on votesCount and on hasVoted, delegate and
\* votedProposalId of every voter; weights agree except that of OrderB.
C39_OrderIndependent ==
    [][/\ (last'.op = "delegate" /\ ~voters[OrderA].hasVoted /\ delegate(OrderA, OrderB)) =>
             /\ last'.reason = "ok"
             /\ voters'[OrderA].delegate = OrderB
       /\ last'.op = "vote" =>
             \A p \in 0 .. NumProposals - 1 :
                 (~voters[OrderB].hasVoted /\ vote(OrderB, p)) =>
                     /\ last'.reason = "ok"
                     /\ voters'[OrderB].votedProposalId = p
       /\ \A b \in DOMAIN deployed :
             (/\ OrderDone(voters)
              /\ OrderDone(deployed[b].voters)
              /\ voters[OrderB].votedProposalId = deployed[b].voters[OrderB].votedProposalId)
             => (/\ proposals = deployed[b].proposals
                 /\ votesCount = deployed[b].votesCount
                 /\ totalVoters = deployed[b].totalVoters
                 /\ \A v \in Addr :
                       /\ voters[v].hasVoted = deployed[b].voters[v].hasVoted
                       /\ voters[v].delegate = deployed[b].voters[v].delegate
                       /\ voters[v].votedProposalId = deployed[b].voters[v].votedProposalId
                       /\ voters[v].isWhitelisted = deployed[b].voters[v].isWhitelisted
                 /\ \A v \in Addr \ {OrderB} : voters[v].weight = deployed[b].voters[v].weight)
      ]_vars

\* the two ballots took the calls in different orders -- OrderB's weight
\* shows it -- with OrderA carrying a delegation of its own, and give the
\* same tally of 3 for proposal 1
C39_Witness ==
    /\ OrderDone(voters)
    /\ voters[OrderB].votedProposalId = 1
    /\ voters[OrderB].weight = 1
    /\ proposals[1].voteCount = 3
    /\ votesCount = 1
    /\ last.op = "delegate"
    /\ last.reason = "ok"
    /\ \E b \in DOMAIN deployed :
          /\ OrderDone(deployed[b].voters)
          /\ deployed[b].voters[OrderB].votedProposalId = 1
          /\ deployed[b].voters[OrderB].weight = 3
          /\ deployed[b].proposals[1].voteCount = 3
          /\ deployed[b].votesCount = 1

\* the event each single-event operation emits
EventOf ==
    [op \in {"whitelistVoter", "vote", "delegate", "setVotingState", "addAdmin",
             "removeAdmin", "createBallot"} |->
        CASE op = "whitelistVoter" -> "VoterWhitelisted"
          [] op = "vote" -> "VoteCast"
          [] op = "delegate" -> "DelegatedVote"
          [] op = "setVotingState" -> "VotingStateChanged"
          [] op = "addAdmin" -> "AdminAdded"
          [] op = "removeAdmin" -> "AdminRemoved"
          [] op = "createBallot" -> "BallotCreated"]

\* the addresses a step whitelists
NewlyWhitelisted == {v \in Addr : voters'[v].isWhitelisted /\ ~voters[v].isWhitelisted}

\* C31: events are emitted on success only -- a rejected call logs nothing;
\* a successful whitelistVoter, vote, delegate, setVotingState, addAdmin,
\* removeAdmin or createBallot logs exactly one event of its kind; a
\* successful whitelistVoters logs one VoterWhitelisted for each voter it
\* newly whitelists, in list order, and none for an entry it skips or does
\* not reach.
C31_EventsOnSuccess ==
    [][/\ last'.reason # "ok" => events' = <<>>
       /\ (last'.reason = "ok" /\ last'.op \in DOMAIN EventOf) =>
             /\ Len(events') = 1
             /\ events'[1].name = EventOf[last'.op]
       /\ (last'.reason = "ok" /\ last'.op = "whitelistVoters") =>
             /\ Len(events') = Cardinality(NewlyWhitelisted)
             /\ \A i \in 1 .. Len(events') :
                   /\ events'[i].name = "VoterWhitelisted"
                   /\ events'[i].a \in NewlyWhitelisted
                   /\ \A j \in 1 .. Len(events') : events'[j].a = events'[i].a => j = i
             /\ \A s \in Creators, l \in CatalogueLists :
                   whitelistVoters(s, l) =>
                       /\ \A i \in 1 .. Len(events') : \E k \in 1 .. Len(l) : l[k] = events'[i].a
                       /\ \A i, j \in 1 .. Len(events') :
                             i < j => \E k, m \in 1 .. Len(l) :
                                         k < m /\ l[k] = events'[i].a /\ l[m] = events'[j].a
                       /\ \A k \in 1 .. Len(l) :
                             (voters[l[k]].isWhitelisted \/ ~voters'[l[k]].isWhitelisted)
                                 => \A i \in 1 .. Len(events') : events'[i].a # l[k]
       /\ last'.op = "none" => events' = <<>>
      ]_vars

\* a batch of two on a ballot of capacity 1 whitelisted its first entry and
\* left the second, with one event
C31_Witness ==
    /\ last.op = "whitelistVoters"
    /\ last.reason = "ok"
    /\ maxVotes = 1
    /\ totalVoters = 1
    /\ events = <<[name |-> "VoterWhitelisted", a |-> Owner + 1, b |-> 0]>>
    /\ ~voters[Owner].isWhitelisted
    /\ Len(ballots) = 2

\* C33: the catalogue is append-only -- a record of ballots keeps its index
\* and every field in every later state, whatever calls follow, and ballots
\* grows by exactly one record on a successful createBallot and on nothing
\* else.
C33_AppendOnly ==
    [][/\ Len(getAllBallots') = Len(getAllBallots) +
              (IF last'.op = "createBallot" /\ last'.reason = "ok" THEN 1 ELSE 0)
       /\ \A i \in 1 .. Len(getAllBallots) : getAllBallots'[i] = getAllBallots[i]
       /\ SubSeq(getAllBallots', 1, Len(getAllBallots)) = getAllBallots
      ]_vars

\* the first ballot has been whitelisted to capacity, delegated and voted in
\* and closed, a second ballot was created meanwhile, and the first record
\* is as written at creation
C33_Witness ==
    /\ Len(getAllBallots) = 2
    /\ self = getAllBallots[1].ballotAddress
    /\ ~votingOpen
    /\ totalVoters = 2
    /\ votesCount = 1
    /\ proposals[1].voteCount = 2
    /\ \E v \in Creators : voters[v].delegate # Zero
    /\ admins[Owner] /\ admins[Owner + 1]
    /\ getAllBallots[1].isActive
    /\ getAllBallots[1].maxVotes = 2
    /\ getAllBallots[1].proposalCount = NumProposals
    /\ getAllBallots[2].maxVotes = 1

====
